---- MODULE Spec2Model ----
(***************************************************************************)
(* State-machine model of the rocksdb-clone storage engine                 *)
(* (exercises/rocksdb-clone/src): MemTable, WriteAheadLog, SSTable and     *)
(* PersistentStore.  The store's handlers are modelled step by step (pc)   *)
(* so that every crash point and every failing I/O call is a state.        *)
(***************************************************************************)
EXTENDS Integers, Sequences, FiniteSets, TLC

\* ---------------------------------------------------------------- bounds
\* Keys are the one-byte keys <<1>> .. <<NumKeys>>.
NumKeys == 2
\* Values are the one-byte values <<1>> .. <<NumValues>>.
NumValues == 2
\* put/delete/flush calls made in a run.
MaxCalls == 3
\* Injected I/O failures (WAL append/flush/clear, SSTable create/write).
MaxFaults == 1
\* Process crashes and clean drops of the store.
MaxRestarts == 1

\* Longest key and longest value handed to the MemTable on its own.
MaxKeyLen == 2
MaxValueLen == 2

\* Most entries in a batch handed to an SSTable on its own.
MaxBatch == 2

Keys == {<<i>> : i \in 1..NumKeys}
Values == {<<i>> : i \in 1..NumValues}

\* ------------------------------------------------------- program constants
\* sstable.rs:64  const FOOTER_SIZE: u64 = 24
FOOTER_SIZE == 24
\* sstable.rs:48  MAGIC_NUMBER.to_be_bytes() of 0x1234567890ABCDEF
MAGIC_NUMBER == <<18, 52, 86, 120, 144, 171, 205, 239>>
\* sstable.rs:203 meta_len > 1024 is rejected
MAX_META_LEN == 1024
\* sstable.rs:308 u64::MAX, the tombstone marker; all bits set, written -1
\* (no length of the model reaches it).
U64_MAX == -1
\* sstable.rs:68-75 three u64 fields in fixed-width encoding
META_ENCODED_LEN == 24
\* width in bytes of a u64 length or offset field (to_le_bytes of a u64)
U64_BYTES == 8
\* 2^24: u64 values from here up are not told apart (see U64FromLE)
U64_BIG == 16777216

\* ------------------------------------------------------------- byte keys
Min(a, b) == IF a < b THEN a ELSE b

\* An order that puts the shorter key first and compares bytes only between
\* keys of one length.
KeyLessShortlex(a, b) ==
    \/ Len(a) < Len(b)
    \/ /\ Len(a) = Len(b)
       /\ \E i \in 1..Len(a) :
             /\ \A j \in 1..(i-1) : a[j] = b[j]
             /\ a[i] < b[i]

\* Ord for Vec<u8>: lexicographic over unsigned bytes (BTreeMap key order).
KeyLess(a, b) ==
    \/ /\ Len(a) < Len(b)
       /\ \A i \in 1..Len(a) : a[i] = b[i]
    \/ \E i \in 1..Min(Len(a), Len(b)) :
          /\ \A j \in 1..(i-1) : a[j] = b[j]
          /\ a[i] < b[i]

MinKey(S) == CHOOSE k \in S : \A j \in S \ {k} : KeyLess(k, j)

RECURSIVE SortKeys(_)
SortKeys(S) ==
    IF S = {} THEN <<>>
    ELSE LET m == MinKey(S) IN <<m>> \o SortKeys(S \ {m})

\* --------------------------------------------------------------- MemTable
\* enum Value { Value(Vec<u8>), Tombstone }
ValueOf(v) == [v |-> v, tag |-> "Value"]
Tombstone == [tag |-> "Tombstone"]
\* Option::None where an Option<Value> or Option<Vec<u8>> is returned
None == [tag |-> "None"]
Some(v) == [v |-> v, tag |-> "Some"]

EmptyMap == [k \in {} |-> Tombstone]

MapInsert(map, k, e) ==
    [x \in (DOMAIN map) \cup {k} |-> IF x = k THEN e ELSE map[x]]

MapGet(map, k) == IF k \in DOMAIN map THEN Some(map[k]) ELSE None

MemTable_new == [map |-> EmptyMap, size |-> 0]

\* A put that hands back the entry it wrote instead of the one it replaced.
MemTable_putReturningNew(m, key, value) ==
    [self |-> [map |-> MapInsert(m.map, key, ValueOf(value)),
               size |-> IF MapGet(m.map, key) = None THEN m.size + Len(key) + Len(value)
                        ELSE IF MapGet(m.map, key).v = Tombstone THEN m.size - 1 + Len(value)
                        ELSE m.size - Len(MapGet(m.map, key).v.v) + Len(value)],
     ret |-> Some(ValueOf(value))]

\* MemTable::put: the table after the call (self) and the returned old value.
MemTable_put(m, key, value) ==
    LET old == MapGet(m.map, key)
        newsize ==
            IF old = None THEN m.size + Len(key) + Len(value)
            ELSE IF old.v = Tombstone THEN m.size - 1 + Len(value)
            ELSE m.size - Len(old.v.v) + Len(value)
    IN [self |-> [map |-> MapInsert(m.map, key, ValueOf(value)), size |-> newsize],
        ret |-> old]

\* A delete that installs the tombstone and leaves the counter as it was.
MemTable_deleteKeepingSize(m, key) ==
    [self |-> [map |-> MapInsert(m.map, key, Tombstone), size |-> m.size],
     ret |-> MapGet(m.map, key)]

\* MemTable::delete: installs a tombstone.
MemTable_delete(m, key) ==
    LET old == MapGet(m.map, key)
        newsize ==
            IF old = None THEN m.size + Len(key) + 1
            ELSE IF old.v = Tombstone THEN m.size
            ELSE m.size - Len(old.v.v) + 1
    IN [self |-> [map |-> MapInsert(m.map, key, Tombstone), size |-> newsize],
        ret |-> old]

MemTable_get(m, key) == MapGet(m.map, key)

\* MemTable::iter: (key, value) pairs in ascending key order, tombstones too.
MemTable_iter(m) ==
    LET ks == SortKeys(DOMAIN m.map)
    IN [i \in 1..Len(ks) |-> <<ks[i], m.map[ks[i]]>>]

MemTable_is_empty(m) == DOMAIN m.map = {}

MemTable_clear(m) == [map |-> EmptyMap, size |-> 0]

\* -------------------------------------------------------------------- WAL
\* enum WalOp { Put { key, value }, Delete { key } }
WalPut(k, v) == [key |-> k, value |-> v, op |-> "Put"]
WalDelete(k) == [key |-> k, op |-> "Delete"]

\* The closure PersistentStore::open hands to replay.
ApplyWalOp(m, o) ==
    IF o.op = "Put" THEN MemTable_put(m, o.key, o.value).self
    ELSE MemTable_delete(m, o.key).self

\* WriteAheadLog::replay over a file of whole records, applied in file order.
RECURSIVE WriteAheadLog_replay(_, _)
WriteAheadLog_replay(file, m) ==
    IF file = <<>> THEN m
    ELSE WriteAheadLog_replay(Tail(file), ApplyWalOp(m, Head(file)))

\* ---------------------------------------------------------------- SSTable
\* Result<Option<Vec<u8>>>: Ok(None) is None, Ok(Some(v)) is Some(v).
Err(kind) == [tag |-> "Err", kind |-> kind]
Ok == [tag |-> "Ok"]

\* A file on disk, by section.  data: the entries written, each with the
\* byte position it starts at; index: the index entries; meta and footer:
\* empty or one record.  size: the file's length in bytes.
EmptyFile == [size |-> 0, data |-> <<>>, index |-> <<>>, meta |-> <<>>, footer |-> <<>>]

\* Bytes write_batch emits for one data entry:
\* [key_len][key][value_len][value, unless a tombstone].
DataEntryBytes(e) ==
    U64_BYTES + Len(e[1]) + U64_BYTES + (IF e[2] = None THEN 0 ELSE Len(e[2].v))

\* Bytes write_batch emits for one index entry: [key_len][key][data_offset].
IndexEntryBytes(e) == U64_BYTES + Len(e[1]) + U64_BYTES

\* An offset count that adds nothing for a tombstone entry.
RECURSIVE CurrentOffsetSkippingTombstones(_, _)
CurrentOffsetSkippingTombstones(entries, n) ==
    IF n = 0 THEN 0
    ELSE CurrentOffsetSkippingTombstones(entries, n - 1) +
         (IF entries[n][2] = None THEN 0
          ELSE 8 + Len(entries[n][1]) + 8 + Len(entries[n][2].v))

\* current_offset after the first n entries, as the loop of write_batch adds it up.
RECURSIVE CurrentOffset(_, _)
CurrentOffset(entries, n) ==
    IF n = 0 THEN 0
    ELSE LET e == entries[n]
             key_header_size == 8
         IN CurrentOffset(entries, n - 1) +
            (IF e[2] = None
                THEN key_header_size + Len(e[1]) + 8
                ELSE key_header_size + Len(e[1]) + 8 + Len(e[2].v))

\* Position in the file after the first n data entries were written.
RECURSIVE DataPosition(_, _)
DataPosition(entries, n) ==
    IF n = 0 THEN 0 ELSE DataPosition(entries, n - 1) + DataEntryBytes(entries[n])

RECURSIVE IndexBytes(_, _)
IndexBytes(entries, n) ==
    IF n = 0 THEN 0 ELSE IndexBytes(entries, n - 1) + IndexEntryBytes(entries[n])

\* The data section written by the first loop of write_batch.
DataSection(entries) ==
    [i \in 1..Len(entries) |->
        [key |-> entries[i][1],
         value |-> IF entries[i][2] = None THEN <<>> ELSE entries[i][2].v,
         at |-> DataPosition(entries, i - 1),
         key_len |-> Len(entries[i][1]),
         value_len |-> IF entries[i][2] = None THEN U64_MAX ELSE Len(entries[i][2].v)]]

\* An index that records, for each entry, the offset just past it.
IndexSectionEndOffsets(entries) ==
    [i \in 1..Len(entries) |->
        [key |-> entries[i][1],
         key_len |-> Len(entries[i][1]),
         data_offset |-> CurrentOffset(entries, i)]]

\* index_entries: (key, entry_offset) per entry, in batch order.
IndexSection(entries) ==
    [i \in 1..Len(entries) |->
        [key |-> entries[i][1],
         key_len |-> Len(entries[i][1]),
         data_offset |-> CurrentOffset(entries, i - 1)]]

\* A write_batch that puts meta_offset where meta_len belongs and the reverse.
SSTable_write_batchFooterSwapped(entries) ==
    LET n == Len(entries)
        index_start == CurrentOffset(entries, n)
        index_end == DataPosition(entries, n) + IndexBytes(entries, n)
    IN [size |-> index_end + META_ENCODED_LEN + FOOTER_SIZE,
        data |-> DataSection(entries),
        index |-> IndexSection(entries),
        meta |-> <<[index_size |-> index_end - index_start, data_size |-> index_start,
                    num_entries |-> n]>>,
        footer |-> <<[meta_len |-> index_end, magic |-> MAGIC_NUMBER,
                      meta_offset |-> META_ENCODED_LEN]>>]

\* SSTable::write_batch on a successful return: the file's whole content.
SSTable_write_batch(entries) ==
    LET n == Len(entries)
        index_start == CurrentOffset(entries, n)
        index_end == DataPosition(entries, n) + IndexBytes(entries, n)
        index_size == index_end - index_start
        data_size == index_start
        meta_start == index_end
        meta_len == META_ENCODED_LEN
    IN [size |-> meta_start + meta_len + FOOTER_SIZE,
        data |-> DataSection(entries),
        index |-> IndexSection(entries),
        meta |-> <<[index_size |-> index_size, data_size |-> data_size, num_entries |-> n]>>,
        footer |-> <<[meta_len |-> meta_len, magic |-> MAGIC_NUMBER, meta_offset |-> meta_start]>>]

\* What reaches the file when write_batch stops early (an I/O error or the
\* process dying): the sections flushed so far.  The BufWriter is flushed
\* after the data section, after the index section and at the end.
WriteStages == {"empty", "data", "index"}

SSTable_partial_write(entries, stage) ==
    LET f == SSTable_write_batch(entries)
        n == Len(entries)
    IN IF stage = "empty" THEN EmptyFile
       ELSE IF stage = "data"
          THEN [EmptyFile EXCEPT !.size = DataPosition(entries, n), !.data = f.data]
       ELSE IF stage = "index"
          THEN [EmptyFile EXCEPT !.size = DataPosition(entries, n) + IndexBytes(entries, n),
                                 !.data = f.data, !.index = f.index]
       ELSE f

\* SSTable::verify_metadata: TRUE when it returns Ok(()).
SSTable_verify_metadata(f) ==
    /\ ~(f.size < FOOTER_SIZE)
    /\ f.footer # <<>>
    /\ f.footer[1].magic = MAGIC_NUMBER
    /\ ~(f.footer[1].meta_len = 0 \/ f.footer[1].meta_len > MAX_META_LEN)
    /\ ~(f.footer[1].meta_offset >= f.size - FOOTER_SIZE)
    /\ ~(f.footer[1].meta_offset + f.footer[1].meta_len > f.size - FOOTER_SIZE)

\* The index scan of SSTable::get from entry i on: the first index entry
\* whose key matches decides.
RECURSIVE SSTable_scan(_, _, _, _)
SSTable_scan(f, key, i, data_end) ==
    IF i > Len(f.index) THEN None
    ELSE IF f.index[i].key = key
       THEN LET value_offset == f.index[i].data_offset
                hit == {j \in 1..Len(f.data) : f.data[j].at = value_offset}
            IN IF value_offset >= data_end THEN Err("InvalidData")
               ELSE IF hit = {} THEN Err("UnexpectedEof")
               ELSE LET d == f.data[CHOOSE j \in hit : TRUE]
                    IN IF d.value_len = U64_MAX THEN None ELSE Some(d.value)
    ELSE SSTable_scan(f, key, i + 1, data_end)

\* SSTable::get on the file the handle's path names.
SSTable_get(f, key) ==
    IF f.size < FOOTER_SIZE THEN None
    ELSE IF f.footer = <<>> \/ f.footer[1].magic # MAGIC_NUMBER THEN Err("InvalidData")
    ELSE LET meta_len == f.footer[1].meta_len
             meta_offset == f.footer[1].meta_offset
             footer_start == f.size - FOOTER_SIZE
         IN IF meta_offset >= footer_start \/ meta_len = 0 \/ meta_len > MAX_META_LEN
               THEN Err("InvalidData")
            ELSE IF f.meta = <<>> THEN Err("Deserialization")
            ELSE LET meta == f.meta[1]
                     index_start == meta.data_size
                     index_end == meta_offset
                 IN IF meta.num_entries = 0 \/ meta.data_size = 0 \/ meta.index_size = 0
                       THEN Err("InvalidData")
                    ELSE IF index_end <= index_start \/ index_end > meta_offset
                       THEN Err("InvalidData")
                    ELSE SSTable_scan(f, key, 1, meta.data_size)

\* ------------------------------------------------- SSTable, byte by byte
\* u64 values are below U64_BIG in every file the model writes.  A decoded
\* u64 of U64_BIG or more is kept as U64_BIG: it compares greater than every
\* length and position of the model, as the real value does.
ByteOf(n, i) ==
    IF n = U64_MAX THEN 255
    ELSE IF i = 1 THEN n % 256
    ELSE IF i = 2 THEN (n \div 256) % 256
    ELSE IF i = 3 THEN (n \div 65536) % 256
    ELSE 0

\* u64::to_le_bytes and the big-endian fixed-width encoding of a u64
LE64(n) == [i \in 1..U64_BYTES |-> ByteOf(n, i)]
BE64(n) == [i \in 1..U64_BYTES |-> ByteOf(n, U64_BYTES + 1 - i)]

\* u64::from_le_bytes
U64FromLE(b) ==
    IF \E i \in 4..U64_BYTES : b[i] # 0 THEN U64_BIG
    ELSE b[1] + 256 * b[2] + 65536 * b[3]

\* decoding of a big-endian fixed-width u64
U64FromBE(b) == U64FromLE([i \in 1..U64_BYTES |-> b[U64_BYTES + 1 - i]])

RECURSIVE Concat(_)
Concat(seqs) == IF seqs = <<>> THEN <<>> ELSE Head(seqs) \o Concat(Tail(seqs))

\* The bytes the writes of write_batch put on disk for a file given by section.
FileBytes(f) ==
    Concat([i \in 1..Len(f.data) |->
              LE64(f.data[i].key_len) \o f.data[i].key
                \o LE64(f.data[i].value_len) \o f.data[i].value])
    \o Concat([i \in 1..Len(f.index) |->
              LE64(f.index[i].key_len) \o f.index[i].key \o LE64(f.index[i].data_offset)])
    \o Concat([i \in 1..Len(f.meta) |->
              BE64(f.meta[i].num_entries) \o BE64(f.meta[i].data_size)
                \o BE64(f.meta[i].index_size)])
    \o Concat([i \in 1..Len(f.footer) |->
              f.footer[i].magic \o LE64(f.footer[i].meta_len) \o LE64(f.footer[i].meta_offset)])

\* seek(pos) then read_exact of n bytes; CanRead is FALSE at an early end of file.
CanRead(b, pos, n) == pos + n <= Len(b)
ReadAt(b, pos, n) == SubSeq(b, pos + 1, pos + n)

\* An open whose only check on meta_len is that it is not 0.
SSTable_openAnyMetaLen(b) ==
    LET file_size == Len(b)
    IN IF file_size < FOOTER_SIZE THEN Err("Custom")
       ELSE LET footer == ReadAt(b, file_size - FOOTER_SIZE, FOOTER_SIZE)
                meta_len == U64FromLE(SubSeq(footer, 9, 16))
                meta_offset == U64FromLE(SubSeq(footer, 17, 24))
            IN IF SubSeq(footer, 1, 8) # MAGIC_NUMBER THEN Err("Custom")
               ELSE IF meta_len = 0 THEN Err("Custom")
               ELSE IF meta_offset >= file_size - FOOTER_SIZE THEN Err("Custom")
               ELSE IF meta_offset >= U64_BIG \/ meta_len >= U64_BIG THEN Err("Overflow")
               ELSE IF meta_offset + meta_len > file_size - FOOTER_SIZE THEN Err("Custom")
               ELSE Ok

\* SSTable::open on a file of these bytes: verify_metadata, check by check.
\* Err("Overflow") stands for meta_offset + meta_len leaving the u64 range.
SSTable_open(b) ==
    LET file_size == Len(b)
    IN IF file_size < FOOTER_SIZE THEN Err("Custom")
       ELSE LET footer == ReadAt(b, file_size - FOOTER_SIZE, FOOTER_SIZE)
                magic_bytes == SubSeq(footer, 1, 8)
                meta_len == U64FromLE(SubSeq(footer, 9, 16))
                meta_offset == U64FromLE(SubSeq(footer, 17, 24))
            IN IF magic_bytes # MAGIC_NUMBER THEN Err("Custom")
               ELSE IF meta_len = 0 \/ meta_len > MAX_META_LEN THEN Err("Custom")
               ELSE IF meta_offset >= file_size - FOOTER_SIZE THEN Err("Custom")
               ELSE IF meta_offset >= U64_BIG \/ meta_len >= U64_BIG THEN Err("Overflow")
               ELSE IF meta_offset + meta_len > file_size - FOOTER_SIZE THEN Err("Custom")
               ELSE Ok

\* The loop of SSTable::get over the index section, reading at position pos.
RECURSIVE SSTable_scan_raw(_, _, _, _, _)
SSTable_scan_raw(b, key, pos, index_end, data_end) ==
    IF ~(pos < index_end) THEN None
    ELSE IF ~CanRead(b, pos, 8) THEN Err("Io")
    ELSE LET key_len == U64FromLE(ReadAt(b, pos, 8))
         IN IF ~CanRead(b, pos + 8, key_len) THEN Err("Io")
            ELSE IF ~CanRead(b, pos + 8 + key_len, 8) THEN Err("Io")
            ELSE LET current_key == ReadAt(b, pos + 8, key_len)
                     value_offset == U64FromLE(ReadAt(b, pos + 8 + key_len, 8))
                 IN IF current_key # key
                       THEN SSTable_scan_raw(b, key, pos + 8 + key_len + 8, index_end, data_end)
                    ELSE IF value_offset >= data_end THEN Err("Io")
                    ELSE IF ~CanRead(b, value_offset, 8) THEN Err("Io")
                    ELSE LET stored_key_len == U64FromLE(ReadAt(b, value_offset, 8))
                             vl_at == value_offset + 8 + stored_key_len
                         IN IF ~CanRead(b, value_offset + 8, stored_key_len) THEN Err("Io")
                            ELSE IF ~CanRead(b, vl_at, 8) THEN Err("Io")
                            ELSE IF ReadAt(b, vl_at, 8) = LE64(U64_MAX) THEN None
                            ELSE LET value_len == U64FromLE(ReadAt(b, vl_at, 8))
                                 IN IF ~CanRead(b, vl_at + 8, value_len) THEN Err("Io")
                                    ELSE Some(ReadAt(b, vl_at + 8, value_len))

\* SSTable::get on a file of these bytes.
SSTable_get_raw(b, key) ==
    LET file_size == Len(b)
    IN IF file_size < FOOTER_SIZE THEN None
       ELSE LET footer_start == file_size - FOOTER_SIZE
                footer == ReadAt(b, footer_start, FOOTER_SIZE)
                magic_bytes == SubSeq(footer, 1, 8)
                meta_len == U64FromLE(SubSeq(footer, 9, 16))
                meta_offset == U64FromLE(SubSeq(footer, 17, 24))
            IN IF magic_bytes # MAGIC_NUMBER THEN Err("Io")
               ELSE IF meta_offset >= footer_start \/ meta_len = 0 \/ meta_len > MAX_META_LEN
                  THEN Err("Io")
               ELSE IF ~CanRead(b, meta_offset, meta_len) THEN Err("Io")
               ELSE IF meta_len < META_ENCODED_LEN THEN Err("Io")
               ELSE LET meta_buf == ReadAt(b, meta_offset, meta_len)
                        num_entries == U64FromBE(SubSeq(meta_buf, 1, 8))
                        data_size == U64FromBE(SubSeq(meta_buf, 9, 16))
                        index_size == U64FromBE(SubSeq(meta_buf, 17, 24))
                        data_end == data_size
                        index_start == data_end
                        index_end == meta_offset
                    IN IF num_entries = 0 \/ data_size = 0 \/ index_size = 0 THEN Err("Io")
                       ELSE IF index_end <= index_start \/ index_end > meta_offset
                          THEN Err("Io")
                       ELSE SSTable_scan_raw(b, key, index_start, index_end, data_end)

\* ------------------------------------------- write-ahead log, byte by byte
\* bincode's standard configuration, as append and replay use it: an enum's
\* variant index (u32) and a Vec's length (usize) are varints, one byte below
\* VARINT_U16, else a marker byte and a little-endian integer of 2, 4 or 8
\* bytes; a Vec<u8>'s bytes follow its length.
VARINT_U16 == 251
\* the last marker a u32 accepts and the last a usize accepts
VARINT_U32 == 252
VARINT_U64 == 253
\* variant indexes of WalOp
PUT_VARIANT == 0
DELETE_VARIANT == 1

\* Lengths of the model are below 65536.
EncodeVarint(n) ==
    IF n < VARINT_U16 THEN <<n>> ELSE <<VARINT_U16, n % 256, (n \div 256) % 256>>

\* The varint at pos, where a marker up to last_marker is accepted: its value
\* and the position after it, or None where decoding fails.
DecodeVarint(b, pos, last_marker) ==
    IF ~CanRead(b, pos, 1) THEN None
    ELSE LET first == b[pos + 1]
             width == IF first = VARINT_U16 THEN 2 ELSE IF first = VARINT_U32 THEN 4 ELSE 8
         IN IF first < VARINT_U16 THEN [v |-> first, next |-> pos + 1]
            ELSE IF first > last_marker \/ ~CanRead(b, pos + 1, width) THEN None
            ELSE [v |-> U64FromLE(ReadAt(b, pos + 1, width) \o [i \in 1..(U64_BYTES - width) |-> 0]),
                  next |-> pos + 1 + width]

\* Vec<u8>: a length, then that many bytes
EncodeVec(bytes) == EncodeVarint(Len(bytes)) \o bytes

DecodeVec(b, pos) ==
    LET len == DecodeVarint(b, pos, VARINT_U64)
    IN IF len = None THEN None
       ELSE IF ~CanRead(b, len.next, len.v) THEN None
       ELSE [v |-> ReadAt(b, len.next, len.v), next |-> len.next + len.v]

\* bincode::encode_into_std_write(op, ...)
EncodeWalOp(o) ==
    IF o.op = "Put" THEN <<PUT_VARIANT>> \o EncodeVec(o.key) \o EncodeVec(o.value)
    ELSE <<DELETE_VARIANT>> \o EncodeVec(o.key)

\* bincode::decode_from_slice::<WalOp, _>: Some(op), or None where it returns
\* a DecodeError.  Bytes of the slice after the value are not looked at.
DecodeWalOp(b) ==
    LET variant == DecodeVarint(b, 0, VARINT_U32)
    IN IF variant = None THEN None
       ELSE IF variant.v = PUT_VARIANT
          THEN LET key == DecodeVec(b, variant.next)
               IN IF key = None THEN None
                  ELSE LET value == DecodeVec(b, key.next)
                       IN IF value = None THEN None ELSE Some(WalPut(key.v, value.v))
       ELSE IF variant.v = DELETE_VARIANT
          THEN LET key == DecodeVec(b, variant.next)
               IN IF key = None THEN None ELSE Some(WalDelete(key.v))
       ELSE None

\* The bytes append hands to its writer: the length of the encoded op as a
\* little-endian u64, then the encoded op.
WalRecordBytes(o) ==
    LET serialized == EncodeWalOp(o)
    IN LE64(Len(serialized)) \o serialized

\* replay that leaves the loop after the first record
WriteAheadLog_replay_rawOnce(b, pos, applied) ==
    IF ~CanRead(b, pos, U64_BYTES) THEN [applied |-> applied, returns |-> Ok]
    ELSE LET len == U64FromLE(ReadAt(b, pos, U64_BYTES))
         IN IF ~CanRead(b, pos + U64_BYTES, len) THEN [applied |-> applied, returns |-> Err("Io")]
            ELSE LET decoded == DecodeWalOp(ReadAt(b, pos + U64_BYTES, len))
                 IN IF decoded = None THEN [applied |-> applied, returns |-> Err("Decode")]
                    ELSE [applied |-> Append(applied, decoded.v), returns |-> Ok]

\* WriteAheadLog::replay's loop from position pos of the file's bytes, with
\* the ops handed to apply so far: what replay returns and every op it
\* handed to apply.  read_exact of the length prefix that meets the end of
\* the file, at the first byte or after some, ends the loop; the callbacks
\* of this program never fail.  Every length prefix of the model's files is
\* below U64_BIG.
RECURSIVE WriteAheadLog_replay_raw(_, _, _)
WriteAheadLog_replay_raw(b, pos, applied) ==
    IF ~CanRead(b, pos, U64_BYTES) THEN [applied |-> applied, returns |-> Ok]
    ELSE LET len == U64FromLE(ReadAt(b, pos, U64_BYTES))
         IN IF ~CanRead(b, pos + U64_BYTES, len) THEN [applied |-> applied, returns |-> Err("Io")]
            ELSE LET decoded == DecodeWalOp(ReadAt(b, pos + U64_BYTES, len))
                 IN IF decoded = None THEN [applied |-> applied, returns |-> Err("Decode")]
                    ELSE WriteAheadLog_replay_raw(b, pos + U64_BYTES + len,
                                                  Append(applied, decoded.v))

\* WriteAheadLog::replay(path, apply): the file is Some(bytes), a path with
\* no file None.
WriteAheadLog_replay_path(file) ==
    IF file = None THEN [applied |-> <<>>, returns |-> Ok]
    ELSE WriteAheadLog_replay_raw(file.v, 0, <<>>)

\* write through a File: at the end of the file where the File was opened
\* for append, else at the File's position, zeros filling a gap before it;
\* a BufWriter that holds nothing writes nothing.
WriteThrough(file, writer, bytes) ==
    IF bytes = <<>> THEN file
    ELSE IF writer.append THEN file \o bytes
    ELSE LET size == IF Len(file) > writer.pos + Len(bytes) THEN Len(file)
                     ELSE writer.pos + Len(bytes)
         IN [i \in 1..size |->
               IF i > writer.pos /\ i <= writer.pos + Len(bytes) THEN bytes[i - writer.pos]
               ELSE IF i <= Len(file) THEN file[i]
               ELSE 0]

\* the writer after it wrote n bytes through its File and holds rest
WriterAfter(writer, n, rest) ==
    [pos |-> IF writer.append THEN writer.pos ELSE writer.pos + n,
     append |-> writer.append, buf |-> rest]

\* -------------------------------------------------------- PersistentStore
VARIABLES
    pc,               \* position of the store's single thread; "down": no store object
    op,               \* the call in progress
    memtable,         \* PersistentStore.memtable
    walBuf,           \* records held in the WAL's BufWriter, not yet in the file
    sstables,         \* PersistentStore.sstables: the ids of the opened files, in list order
    next_sstable_id,  \* PersistentStore.next_sstable_id
    walFile,          \* wal.log on disk: the records written, in file order
    files,            \* the <id>.sst files on disk, by id
    ret,              \* what the last call returned
    faults,           \* I/O failures injected so far
    restarts,         \* crashes and drops so far
    calls,            \* put/delete/flush calls made so far
    hist,             \* history of the calls, read only by the properties
    dir_exists        \* whether the data directory exists on disk

vars == <<pc, op, memtable, walBuf, sstables, next_sstable_id, walFile, files,
          ret, faults, restarts, calls, hist, dir_exists>>

NoOp == [name |-> "none"]
PutOp(k, v) == [key |-> k, value |-> v, name |-> "put"]
DeleteOp(k) == [key |-> k, name |-> "delete"]
FlushOp == [name |-> "flush"]

NoFiles == [i \in {} |-> EmptyFile]

FileInsert(fs, id, f) == [i \in (DOMAIN fs) \cup {id} |-> IF i = id THEN f ELSE fs[i]]

\* ---------------------------------------------- the directory open scans
\* A file name is a stem and an extension; a stem is a sequence of ASCII
\* codes.  A u64 read from a name is kept as its decimal digits without
\* leading zeros (zero is <<0>>), so that the whole 64-bit range is exact.
ASCII_ZERO == 48
ASCII_PLUS == 43
ASCII_X == 120
\* the width of {:020}
NAME_WIDTH == 20
\* u64::MAX = 18446744073709551615
U64_MAX_DEC == <<1, 8, 4, 4, 6, 7, 4, 4, 0, 7, 3, 7, 0, 9, 5, 5, 1, 6, 1, 5>>

\* d without its leading zeros (the last digit always stays)
RECURSIVE StripZeros(_)
StripZeros(d) == IF Len(d) > 1 /\ d[1] = 0 THEN StripZeros(Tail(d)) ELSE d

\* a < b on decimal digits without leading zeros
DecLess(a, b) ==
    \/ Len(a) < Len(b)
    \/ /\ Len(a) = Len(b)
       /\ \E i \in 1..Len(a) : a[i] < b[i] /\ \A j \in 1..(i - 1) : a[j] = b[j]

\* a + 1 on decimal digits
RECURSIVE DecSucc(_)
DecSucc(a) ==
    IF a = <<>> THEN <<1>>
    ELSE IF a[Len(a)] < 9 THEN [a EXCEPT ![Len(a)] = a[Len(a)] + 1]
    ELSE DecSucc(SubSeq(a, 1, Len(a) - 1)) \o <<0>>

RECURSIVE DecOfNat(_)
DecOfNat(n) == IF n < 10 THEN <<n>> ELSE DecOfNat(n \div 10) \o <<n % 10>>

RECURSIVE NatOfDec(_)
NatOfDec(d) == IF d = <<>> THEN 0 ELSE 10 * NatOfDec(SubSeq(d, 1, Len(d) - 1)) + d[Len(d)]

\* str::parse::<u64>: an optional '+', then one or more decimal digits whose
\* value fits 64 bits; anything else is an error (None here).
ParseU64(stem) ==
    LET body == IF stem # <<>> /\ stem[1] = ASCII_PLUS THEN Tail(stem) ELSE stem
        digits == StripZeros([i \in 1..Len(body) |-> body[i] - ASCII_ZERO])
    IN IF body = <<>> \/ \E i \in 1..Len(body) : body[i] - ASCII_ZERO \notin 0..9 THEN None
       ELSE IF DecLess(U64_MAX_DEC, digits) THEN None
       ELSE Some(digits)

\* format!("{:020}", id)
FormatId(d) ==
    LET pad == IF Len(d) < NAME_WIDTH THEN NAME_WIDTH - Len(d) ELSE 0
    IN [i \in 1..(pad + Len(d)) |-> ASCII_ZERO + (IF i <= pad THEN 0 ELSE d[i - pad])]

DirEntry(stem, ext, f) == [file |-> f, stem |-> stem, ext |-> ext]

\* A scan that opens every .sst file, whatever its stem.
RECURSIVE ScanDirOpeningAll(_, _, _, _)
ScanDirOpeningAll(listing, opened, next, overflow_checks) ==
    IF listing = <<>> THEN [tag |-> "Ok", sstables |-> opened, next_sstable_id |-> next]
    ELSE LET e == Head(listing)
             id == ParseU64(e.stem)
         IN IF e.ext # "sst"
               THEN ScanDirOpeningAll(Tail(listing), opened, next, overflow_checks)
            ELSE IF id = None
               THEN IF ~SSTable_verify_metadata(e.file) THEN Err("Custom")
                    ELSE ScanDirOpeningAll(Tail(listing), Append(opened, e.stem), next, overflow_checks)
            ELSE IF id.v = U64_MAX_DEC /\ overflow_checks THEN [tag |-> "Panic"]
            ELSE LET succ == IF id.v = U64_MAX_DEC THEN <<0>> ELSE DecSucc(id.v)
                     max == IF DecLess(next, succ) THEN succ ELSE next
                 IN IF ~SSTable_verify_metadata(e.file) THEN Err("Custom")
                    ELSE ScanDirOpeningAll(Tail(listing), Append(opened, e.stem), max, overflow_checks)

\* The loop over fs::read_dir: every <u64>.sst is opened, the first one that
\* fails verification ends the scan with its error.  id + 1 on u64::MAX
\* panics in a build with overflow checks and wraps to 0 without them.
RECURSIVE ScanDir(_, _, _, _)
ScanDir(listing, opened, next, overflow_checks) ==
    IF listing = <<>> THEN [tag |-> "Ok", sstables |-> opened, next_sstable_id |-> next]
    ELSE LET e == Head(listing)
             id == ParseU64(e.stem)
         IN IF e.ext # "sst" \/ id = None
               THEN ScanDir(Tail(listing), opened, next, overflow_checks)
            ELSE IF id.v = U64_MAX_DEC /\ overflow_checks THEN [tag |-> "Panic"]
            ELSE LET succ == IF id.v = U64_MAX_DEC THEN <<0>> ELSE DecSucc(id.v)
                     max == IF DecLess(next, succ) THEN succ ELSE next
                 IN IF ~SSTable_verify_metadata(e.file) THEN Err("Custom")
                    ELSE ScanDir(Tail(listing), Append(opened, e.stem), max, overflow_checks)

\* The key sort_by_key sorts on: the parsed stem of the SSTable's path, 0
\* when it does not parse.
SortKey(stem) == LET id == ParseU64(stem) IN IF id = None THEN <<0>> ELSE id.v

\* list put in the order of keys, elements with equal keys staying in the
\* order they came in.
StableOrder(list, keys) ==
    LET rank(i) == Cardinality({j \in 1..Len(list) :
                        DecLess(keys[j], keys[i]) \/ (keys[j] = keys[i] /\ j <= i)})
    IN [p \in 1..Len(list) |-> list[CHOOSE i \in 1..Len(list) : rank(i) = p]]

\* sort_by_key: a stable sort, ascending on the key.  (The keys are bound
\* through a one-element set so that each is computed once.)
SortByKey(list) ==
    CHOOSE sorted \in {StableOrder(list, keys) :
                          keys \in {[i \in 1..Len(list) |-> SortKey(list[i])]}} : TRUE

\* The SSTable part of PersistentStore::open on a directory listing.
PersistentStore_open_sstables(listing, overflow_checks) ==
    CHOOSE opened \in {IF r.tag = "Ok" THEN [r EXCEPT !.sstables = SortByKey(r.sstables)] ELSE r :
                          r \in {ScanDir(listing, <<>>, <<0>>, overflow_checks)}} : TRUE

\* The orders read_dir may return a set of entries in.
RECURSIVE Enumerations(_)
Enumerations(S) ==
    IF S = {} THEN {<<>>}
    ELSE UNION {{<<e>> \o rest : rest \in Enumerations(S \ {e})} : e \in S}

\* The listing of a directory that holds the files the store wrote, the
\* files enumerated in the order ids.
StoreDir(fs, ids) == [i \in 1..Len(ids) |-> DirEntry(FormatId(DecOfNat(ids[i])), "sst", fs[ids[i]])]

\* A flush policy with a threshold: seal once the memtable holds more than two bytes.
ShouldFlushAboveThreshold(m) == m.size > 2

\* PersistentStore::should_flush
PersistentStore_should_flush(m) == ~MemTable_is_empty(m)

\* A batch that leaves the tombstones out.
FlushEntriesDroppingTombstones(m) ==
    LET it == SelectSeq(MemTable_iter(m), LAMBDA e : e[2].tag = "Value")
    IN [i \in 1..Len(it) |-> <<it[i][1], Some(it[i][2].v)>>]

\* The batch flush_memtable collects from the memtable's iterator.
FlushEntries(m) ==
    LET it == MemTable_iter(m)
    IN [i \in 1..Len(it) |->
          IF it[i][2].tag = "Value" THEN <<it[i][1], Some(it[i][2].v)>>
          ELSE <<it[i][1], None>>]

\* A read path that goes on to the older SSTables when one answers None.
RECURSIVE ScanSSTablesSkippingNone(_, _, _)
ScanSSTablesSkippingNone(fs, ssts, key) ==
    IF ssts = <<>> THEN None
    ELSE LET r == SSTable_get(fs[ssts[Len(ssts)]], key)
         IN IF r.tag = "Err" THEN r
            ELSE IF r.tag = "Some" THEN r
            ELSE ScanSSTablesSkippingNone(fs, SubSeq(ssts, 1, Len(ssts) - 1), key)

\* A read path that goes on to the older SSTables when one returns an error.
RECURSIVE ScanSSTablesSkippingErr(_, _, _)
ScanSSTablesSkippingErr(fs, ssts, key) ==
    IF ssts = <<>> THEN None
    ELSE LET r == SSTable_get(fs[ssts[Len(ssts)]], key)
         IN IF r.tag = "Err"
               THEN ScanSSTablesSkippingErr(fs, SubSeq(ssts, 1, Len(ssts) - 1), key)
            ELSE IF r.tag = "Some" THEN r
            ELSE None

\* The loop of PersistentStore::get over sstables.iter().rev(): both arms of
\* the match return, so the newest SSTable alone answers.
ScanSSTables(fs, ssts, key) ==
    IF ssts = <<>> THEN None
    ELSE LET r == SSTable_get(fs[ssts[Len(ssts)]], key)
         IN IF r.tag = "Err" THEN r
            ELSE IF r.tag = "Some" THEN r
            ELSE None

\* PersistentStore::get
PersistentStore_get(m, fs, ssts, key) ==
    LET e == MemTable_get(m, key)
    IN IF e # None
          THEN IF e.v.tag = "Value" THEN Some(e.v.v) ELSE None
          ELSE ScanSSTables(fs, ssts, key)

\* get of every key at once
Answers(m, fs, ssts) == [k \in Keys |-> PersistentStore_get(m, fs, ssts, k)]

\* ------------------------------------------------------- history variable
\* hist records what the calls returned; no action's guard reads it.
\*   ryw[k]        Some(v) while put(k, v) returned Ok and since then only
\*                 successful put/delete calls on other keys and flush calls ran
\*   deleted       keys whose delete returned Ok with no put/delete call on them since
\*   acked[k]      the entry of the last put/delete on k that returned Ok
\*   onlyOkWrites  every call so far was a put/delete that returned Ok
\*   phase, snap   where the run stands after a drop or crash, and the
\*                 answers get gave for every key at that moment
\*   wbFailed      write_batch failed in this process
\*   notFound      an open was refused with DatabaseNotFound and no
\*                 put/delete/flush call was made since
\*   before        the length of the SSTable list and the answers get gave
\*                 for every key when the last put/delete was called
\*   lastOpen      what the last PersistentStore::open produced (whether it
\*                 succeeded, the memtable, the list, next_sstable_id), while
\*                 no put/delete/flush call was made since
NoSnap == [k \in Keys |-> None]
NoBefore == [tables |-> 0, answers |-> NoSnap]

HistInit ==
    [ryw |-> [k \in Keys |-> None], deleted |-> {}, acked |-> [k \in Keys |-> None],
     onlyOkWrites |-> TRUE, snap |-> NoSnap, phase |-> "none", wbFailed |-> FALSE,
     notFound |-> FALSE, before |-> NoBefore, lastOpen |-> None]

HistCall(h, o) ==
    IF o.name = "flush"
       THEN [h EXCEPT !.onlyOkWrites = FALSE,
                      !.phase = IF h.phase = "recovered_sealed" THEN "resealing" ELSE "none",
                      !.snap = IF h.phase = "recovered_sealed" THEN h.snap ELSE NoSnap,
                      !.notFound = FALSE,
                      !.before = NoBefore,
                      !.lastOpen = None]
       ELSE [h EXCEPT !.ryw[o.key] = None,
                      !.deleted = h.deleted \ {o.key},
                      !.phase = "none",
                      !.snap = NoSnap,
                      !.notFound = FALSE,
                      !.before = [tables |-> Len(sstables),
                                  answers |-> Answers(memtable, files, sstables)],
                      !.lastOpen = None]

HistReturn(h, o, r) ==
    IF o.name = "flush"
       THEN IF r = Ok /\ h.phase = "resealing"
               THEN [h EXCEPT !.phase = "resealed"]
               ELSE [h EXCEPT !.phase = "none", !.snap = NoSnap]
    ELSE IF r # Ok
       THEN [h EXCEPT !.ryw = [k \in Keys |-> None], !.onlyOkWrites = FALSE]
    ELSE IF o.name = "put"
       THEN [h EXCEPT !.ryw[o.key] = Some(o.value), !.acked[o.key] = Some(ValueOf(o.value))]
    ELSE [h EXCEPT !.deleted = h.deleted \cup {o.key}, !.acked[o.key] = Some(Tombstone)]

HistDown(h, kind, answers) ==
    [h EXCEPT !.ryw = [k \in Keys |-> None],
              !.wbFailed = FALSE,
              !.onlyOkWrites = h.onlyOkWrites /\ kind \in {"drop", "crash_idle"},
              !.phase = IF kind = "drop" THEN "dropped"
                        ELSE IF kind = "crash_idle" THEN "crashed_idle"
                        ELSE IF kind = "crash_sealed" THEN "crashed_sealed"
                        ELSE "none",
              !.snap = IF kind \in {"drop", "crash_sealed"} THEN answers ELSE NoSnap,
              !.before = NoBefore]

HistOpen(h, ok) ==
    [h EXCEPT !.phase =
        IF h.phase \in {"dropped", "reopen_failed"}
           THEN IF ok THEN "reopened" ELSE "reopen_failed"
        ELSE IF h.phase = "crashed_idle" /\ ok THEN "recovered_idle"
        ELSE IF h.phase = "crashed_sealed" /\ ok THEN "recovered_sealed"
        ELSE "none",
              !.snap = IF h.phase \in {"dropped", "reopen_failed"} \/ (h.phase = "crashed_sealed" /\ ok)
                          THEN h.snap ELSE NoSnap]

\* ------------------------------------------------------------------- Init
\* No data directory yet (so no file in it) and no store object.
Init ==
    /\ pc = "down"
    /\ op = NoOp
    /\ memtable = MemTable_new
    /\ walBuf = <<>>
    /\ sstables = <<>>
    /\ next_sstable_id = 0
    /\ walFile = <<>>
    /\ files = NoFiles
    /\ ret = [call |-> "none"]
    /\ faults = 0
    /\ restarts = 0
    /\ calls = 0
    /\ hist = HistInit
    /\ dir_exists = FALSE

\* ---------------------------------------------------------------- actions
\* An open that starts wal.log anew once it has replayed it.
OpenConsumingLog ==
    /\ pc = "down"
    /\ \E r \in {PersistentStore_open_sstables(listing, overflow_checks) :
                    listing \in {StoreDir(files, ids) : ids \in Enumerations(DOMAIN files)},
                    overflow_checks \in BOOLEAN} :
         LET ok == r.tag = "Ok"
         IN /\ pc' = IF ok THEN "idle" ELSE "down"
            /\ sstables' = IF ok THEN [i \in 1..Len(r.sstables) |-> NatOfDec(SortKey(r.sstables[i]))]
                                 ELSE <<>>
            /\ next_sstable_id' = IF ok THEN NatOfDec(r.next_sstable_id) ELSE 0
            /\ memtable' = IF ok THEN WriteAheadLog_replay(walFile, MemTable_new)
                                 ELSE MemTable_new
            /\ ret' = [call |-> "open", result |-> IF ok THEN Ok ELSE r]
            /\ hist' = [HistOpen(hist, ok) EXCEPT
                           !.lastOpen = Some(<<ok, memtable', sstables', next_sstable_id'>>)]
    /\ dir_exists' = TRUE
    /\ walFile' = <<>>
    /\ UNCHANGED <<calls, op, walBuf, files, faults, restarts>>

\* PersistentStore::open on the directory: every <id>.sst is opened and
\* verified, the list sorted, wal.log replayed into a fresh memtable.  A scan
\* that ends in an error or a panic produces no store.
Open ==
    /\ pc = "down"
    /\ \E r \in {PersistentStore_open_sstables(listing, overflow_checks) :
                    listing \in {StoreDir(files, ids) : ids \in Enumerations(DOMAIN files)},
                    overflow_checks \in BOOLEAN} :
         LET ok == r.tag = "Ok"
         IN /\ pc' = IF ok THEN "idle" ELSE "down"
            /\ sstables' = IF ok THEN [i \in 1..Len(r.sstables) |-> NatOfDec(SortKey(r.sstables[i]))]
                                 ELSE <<>>
            /\ next_sstable_id' = IF ok THEN NatOfDec(r.next_sstable_id) ELSE 0
            /\ memtable' = IF ok THEN WriteAheadLog_replay(walFile, MemTable_new)
                                 ELSE MemTable_new
            /\ ret' = [call |-> "open", result |-> IF ok THEN Ok ELSE r]
            /\ hist' = [HistOpen(hist, ok) EXCEPT
                           !.lastOpen = Some(<<ok, memtable', sstables', next_sstable_id'>>)]
    /\ dir_exists' = TRUE
    /\ UNCHANGED <<calls, op, walBuf, walFile, files, faults, restarts>>

\* A DB::open that makes the directory before it looks at create_if_missing.
DB_openCreatingFirst(create_if_missing) ==
    \/ /\ pc = "down"
       /\ ~dir_exists
       /\ ~create_if_missing
       /\ ret' = [call |-> "open", result |-> Err("DatabaseNotFound")]
       /\ hist' = [HistOpen(hist, FALSE) EXCEPT !.notFound = TRUE]
       /\ dir_exists' = TRUE
       /\ UNCHANGED <<pc, op, memtable, walBuf, sstables, next_sstable_id,
                      walFile, files, faults, restarts, calls>>
    \/ /\ dir_exists \/ create_if_missing
       /\ Open

\* DB::open(path, create_if_missing): a missing directory is an error unless
\* create_if_missing; otherwise the directory is made and the store opened.
DB_open(create_if_missing) ==
    \/ /\ pc = "down"
       /\ ~dir_exists
       /\ ~create_if_missing
       /\ ret' = [call |-> "open", result |-> Err("DatabaseNotFound")]
       /\ hist' = [HistOpen(hist, FALSE) EXCEPT !.notFound = TRUE]
       /\ UNCHANGED <<dir_exists, pc, op, memtable, walBuf, sstables, next_sstable_id,
                      walFile, files, faults, restarts, calls>>
    \/ /\ dir_exists \/ create_if_missing
       /\ Open

\* A call returns r to the caller.
Return(r) ==
    /\ pc' = "idle"
    /\ ret' = [call |-> op.name, result |-> r]
    /\ hist' = HistReturn(hist, op, r)
    /\ op' = NoOp

\* WriteAheadLog::append succeeding: everything buffered reaches the file.
WalAppendOk(o, rec) ==
    /\ pc = "idle"
    /\ calls < MaxCalls
    /\ calls' = calls + 1
    /\ walFile' = walFile \o walBuf \o <<rec>>
    /\ walBuf' = <<>>
    /\ pc' = "mem_update"
    /\ op' = o
    /\ ret' = [call |-> o.name]
    /\ hist' = HistCall(hist, o)
    /\ UNCHANGED <<dir_exists, memtable, sstables, next_sstable_id, files, faults, restarts>>

\* A put/delete that updates the memtable before it reports the failed append.
WalAppendFailAfterMemtable(o, rec) ==
    /\ pc = "idle"
    /\ calls < MaxCalls
    /\ calls' = calls + 1
    /\ faults < MaxFaults
    /\ faults' = faults + 1
    /\ \E n \in 0..Len(walBuf) :
          /\ walFile' = walFile \o SubSeq(walBuf \o <<rec>>, 1, n)
          /\ walBuf' = SubSeq(walBuf \o <<rec>>, n + 1, Len(walBuf) + 1)
    /\ memtable' = IF o.name = "put" THEN MemTable_put(memtable, o.key, o.value).self
                   ELSE MemTable_delete(memtable, o.key).self
    /\ pc' = "idle"
    /\ op' = NoOp
    /\ ret' = [call |-> o.name, result |-> Err("Io")]
    /\ hist' = HistReturn(HistCall(hist, o), o, Err("Io"))
    /\ UNCHANGED <<dir_exists, sstables, next_sstable_id, files, restarts>>

\* WriteAheadLog::append failing in writer.flush(): the BufWriter keeps what
\* it could not write; n of the buffered records reached the file.
WalAppendFail(o, rec) ==
    /\ pc = "idle"
    /\ calls < MaxCalls
    /\ calls' = calls + 1
    /\ faults < MaxFaults
    /\ faults' = faults + 1
    /\ \E n \in 0..Len(walBuf) :
          /\ walFile' = walFile \o SubSeq(walBuf \o <<rec>>, 1, n)
          /\ walBuf' = SubSeq(walBuf \o <<rec>>, n + 1, Len(walBuf) + 1)
    /\ pc' = "idle"
    /\ op' = NoOp
    /\ ret' = [call |-> o.name, result |-> Err("Io")]
    /\ hist' = HistReturn(HistCall(hist, o), o, Err("Io"))
    /\ UNCHANGED <<dir_exists, memtable, sstables, next_sstable_id, files, restarts>>

\* PersistentStore::put up to the WAL append
Put(k, v) ==
    \/ WalAppendOk(PutOp(k, v), WalPut(k, v))
    \/ WalAppendFail(PutOp(k, v), WalPut(k, v))

\* PersistentStore::delete up to the WAL append
Delete(k) ==
    \/ WalAppendOk(DeleteOp(k), WalDelete(k))
    \/ WalAppendFail(DeleteOp(k), WalDelete(k))

\* put/delete after the append: the memtable is updated, then should_flush
\* decides between sealing and returning.
MemUpdate ==
    /\ pc = "mem_update"
    /\ memtable' = IF op.name = "put" THEN MemTable_put(memtable, op.key, op.value).self
                   ELSE MemTable_delete(memtable, op.key).self
    /\ IF PersistentStore_should_flush(memtable')
          THEN /\ pc' = "seal_create"
               /\ UNCHANGED <<op, ret, hist>>
          ELSE Return(Ok)
    /\ UNCHANGED <<dir_exists, calls, walBuf, sstables, next_sstable_id, walFile, files, faults, restarts>>

\* PersistentStore::flush: wal.flush(), then should_flush.
Flush ==
    /\ pc = "idle"
    /\ calls < MaxCalls
    /\ calls' = calls + 1
    /\ \/ /\ walFile' = walFile \o walBuf
          /\ walBuf' = <<>>
          /\ IF PersistentStore_should_flush(memtable)
                THEN /\ pc' = "seal_create"
                     /\ op' = FlushOp
                     /\ ret' = [call |-> "flush"]
                     /\ hist' = HistCall(hist, FlushOp)
                ELSE /\ pc' = "idle"
                     /\ op' = NoOp
                     /\ ret' = [call |-> "flush", result |-> Ok]
                     /\ hist' = HistReturn(HistCall(hist, FlushOp), FlushOp, Ok)
          /\ UNCHANGED faults
       \/ /\ faults < MaxFaults
          /\ walBuf # <<>>
          /\ faults' = faults + 1
          /\ \E n \in 0..(Len(walBuf) - 1) :
                /\ walFile' = walFile \o SubSeq(walBuf, 1, n)
                /\ walBuf' = SubSeq(walBuf, n + 1, Len(walBuf))
          /\ pc' = "idle"
          /\ op' = NoOp
          /\ ret' = [call |-> "flush", result |-> Err("Io")]
          /\ hist' = HistReturn(HistCall(hist, FlushOp), FlushOp, Err("Io"))
    /\ UNCHANGED <<dir_exists, memtable, sstables, next_sstable_id, files, restarts>>

\* flush_memtable, first part: the empty check and SSTable::create of
\* <next_sstable_id>.sst, which refuses a path that exists.
SealCreateOk ==
    /\ pc = "seal_create"
    /\ ~MemTable_is_empty(memtable)
    /\ next_sstable_id \notin DOMAIN files
    /\ files' = FileInsert(files, next_sstable_id, EmptyFile)
    /\ pc' = "seal_write"
    /\ UNCHANGED <<dir_exists, calls, op, memtable, walBuf, sstables, next_sstable_id, walFile, ret,
                   faults, restarts, hist>>

\* A create without the path.exists() test: OpenOptions with create and
\* truncate empties the file that is there.
SealCreateTruncating ==
    /\ pc = "seal_create"
    /\ ~MemTable_is_empty(memtable)
    /\ next_sstable_id \in DOMAIN files
    /\ files' = FileInsert(files, next_sstable_id, EmptyFile)
    /\ pc' = "seal_write"
    /\ UNCHANGED <<dir_exists, calls, op, memtable, walBuf, sstables, next_sstable_id, walFile, ret,
                   faults, restarts, hist>>

SealCreateExists ==
    /\ pc = "seal_create"
    /\ ~MemTable_is_empty(memtable)
    /\ next_sstable_id \in DOMAIN files
    /\ Return(Err("Custom"))
    /\ UNCHANGED <<dir_exists, calls, memtable, walBuf, sstables, next_sstable_id, walFile, files,
                   faults, restarts>>

\* OpenOptions::open failing: no file is made.
SealCreateFail ==
    /\ pc = "seal_create"
    /\ ~MemTable_is_empty(memtable)
    /\ next_sstable_id \notin DOMAIN files
    /\ faults < MaxFaults
    /\ faults' = faults + 1
    /\ Return(Err("Io"))
    /\ UNCHANGED <<dir_exists, calls, memtable, walBuf, sstables, next_sstable_id, walFile, files, restarts>>

\* write_batch of the memtable's entries returning Ok.
SealWriteOk ==
    /\ pc = "seal_write"
    /\ files' = [files EXCEPT ![next_sstable_id] = SSTable_write_batch(FlushEntries(memtable))]
    /\ pc' = "seal_push"
    /\ UNCHANGED <<dir_exists, calls, op, memtable, walBuf, sstables, next_sstable_id, walFile, ret,
                   faults, restarts, hist>>

\* A seal that goes on to clear the memtable and the WAL after a write_batch
\* that returned an error.
SealWriteFailClearing ==
    /\ pc = "seal_write"
    /\ faults < MaxFaults
    /\ faults' = faults + 1
    /\ \E stage \in WriteStages \cup {"complete"} :
          files' = [files EXCEPT ![next_sstable_id] =
                        SSTable_partial_write(FlushEntries(memtable), stage)]
    /\ pc' = "idle"
    /\ ret' = [call |-> op.name, result |-> Err("Io")]
    /\ hist' = [HistReturn(hist, op, Err("Io")) EXCEPT !.wbFailed = TRUE]
    /\ op' = NoOp
    /\ memtable' = MemTable_clear(memtable)
    /\ walFile' = <<>>
    /\ UNCHANGED <<dir_exists, calls, walBuf, sstables, next_sstable_id, restarts>>

\* write_batch returning an error: the file keeps what was flushed, or all
\* of it when the BufWriter's drop completes the write.
SealWriteFail ==
    /\ pc = "seal_write"
    /\ faults < MaxFaults
    /\ faults' = faults + 1
    /\ \E stage \in WriteStages \cup {"complete"} :
          files' = [files EXCEPT ![next_sstable_id] =
                        SSTable_partial_write(FlushEntries(memtable), stage)]
    /\ pc' = "idle"
    /\ ret' = [call |-> op.name, result |-> Err("Io")]
    /\ hist' = [HistReturn(hist, op, Err("Io")) EXCEPT !.wbFailed = TRUE]
    /\ op' = NoOp
    /\ UNCHANGED <<dir_exists, calls, memtable, walBuf, sstables, next_sstable_id, walFile, restarts>>

\* A push that makes the new SSTable the whole list.
SealPushReplacing ==
    /\ pc = "seal_push"
    /\ sstables' = <<next_sstable_id>>
    /\ next_sstable_id' = next_sstable_id + 1
    /\ pc' = "seal_memclear"
    /\ UNCHANGED <<dir_exists, calls, op, memtable, walBuf, walFile, files, ret, faults, restarts, hist>>

\* self.sstables.push(sstable); self.next_sstable_id += 1
SealPush ==
    /\ pc = "seal_push"
    /\ sstables' = Append(sstables, next_sstable_id)
    /\ next_sstable_id' = next_sstable_id + 1
    /\ pc' = "seal_memclear"
    /\ UNCHANGED <<dir_exists, calls, op, memtable, walBuf, walFile, files, ret, faults, restarts, hist>>

\* self.memtable.clear()
SealMemClear ==
    /\ pc = "seal_memclear"
    /\ memtable' = MemTable_clear(memtable)
    /\ pc' = "seal_walclear"
    /\ UNCHANGED <<dir_exists, calls, op, walBuf, sstables, next_sstable_id, walFile, files, ret,
                   faults, restarts, hist>>

\* self.wal.clear(): File::create truncates wal.log; flush_memtable and the
\* call return Ok.
SealWalClearOk ==
    /\ pc = "seal_walclear"
    /\ walFile' = <<>>
    /\ walBuf' = <<>>
    /\ Return(Ok)
    /\ UNCHANGED <<dir_exists, calls, memtable, sstables, next_sstable_id, files, faults, restarts>>

\* File::create failing: the old writer and the file stay.
SealWalClearFail ==
    /\ pc = "seal_walclear"
    /\ faults < MaxFaults
    /\ faults' = faults + 1
    /\ Return(Err("Io"))
    /\ UNCHANGED <<dir_exists, calls, memtable, walBuf, sstables, next_sstable_id, walFile, files, restarts>>

\* PersistentStore::get
Get(k) ==
    /\ pc = "idle"
    /\ ret' = [key |-> k, call |-> "get",
               result |-> PersistentStore_get(memtable, files, sstables, k)]
    /\ UNCHANGED <<dir_exists, calls, pc, op, memtable, walBuf, sstables, next_sstable_id, walFile,
                   files, faults, restarts, hist>>

\* Which kind of crash point pc is.
CrashKind ==
    IF pc = "idle" THEN "crash_idle"
    ELSE IF pc \in {"seal_push", "seal_memclear", "seal_walclear"} THEN "crash_sealed"
    ELSE "crash_other"

\* The process dies: the store object and the BufWriter's content are gone,
\* the files stay.  Dying inside write_batch leaves the sections flushed so far.
Crash ==
    /\ pc # "down"
    /\ restarts < MaxRestarts
    /\ restarts' = restarts + 1
    /\ IF pc = "seal_write"
          THEN \E stage \in WriteStages :
                  files' = [files EXCEPT ![next_sstable_id] =
                                SSTable_partial_write(FlushEntries(memtable), stage)]
          ELSE UNCHANGED files
    /\ hist' = HistDown(hist, CrashKind, Answers(memtable, files, sstables))
    /\ pc' = "down"
    /\ op' = NoOp
    /\ memtable' = MemTable_new
    /\ walBuf' = <<>>
    /\ sstables' = <<>>
    /\ next_sstable_id' = 0
    /\ ret' = [call |-> "none"]
    /\ UNCHANGED <<dir_exists, calls, walFile, faults>>

\* The store is dropped between calls: the BufWriter's drop writes what it
\* holds, ignoring errors (n records reach the file).
Drop ==
    /\ pc = "idle"
    /\ restarts < MaxRestarts
    /\ restarts' = restarts + 1
    /\ \E n \in 0..Len(walBuf) : walFile' = walFile \o SubSeq(walBuf, 1, n)
    /\ hist' = HistDown(hist, "drop", Answers(memtable, files, sstables))
    /\ pc' = "down"
    /\ op' = NoOp
    /\ memtable' = MemTable_new
    /\ walBuf' = <<>>
    /\ sstables' = <<>>
    /\ next_sstable_id' = 0
    /\ ret' = [call |-> "none"]
    /\ UNCHANGED <<dir_exists, calls, files, faults>>

Next ==
    \/ \E c \in BOOLEAN : DB_open(c)
    \/ \E k \in Keys, v \in Values : Put(k, v)
    \/ \E k \in Keys : Delete(k)
    \/ MemUpdate
    \/ Flush
    \/ SealCreateOk
    \/ SealCreateExists
    \/ SealCreateFail
    \/ SealWriteOk
    \/ SealWriteFail
    \/ SealPush
    \/ SealMemClear
    \/ SealWalClearOk
    \/ SealWalClearFail
    \/ \E k \in Keys : Get(k)
    \/ Crash
    \/ Drop

Spec == Init /\ [][Next]_vars

\* ------------------------------------------------------- MemTable alone
\* The MemTable driven directly, with keys and values of every length up to
\* the bounds (the empty key and the empty value included).
BytesOfLen(n) == [i \in 1..n |-> i]
MemKeys == {BytesOfLen(n) : n \in 0..MaxKeyLen}
MemValues == {BytesOfLen(n) : n \in 0..MaxValueLen}

MemPut(k, v) ==
    /\ memtable' = MemTable_put(memtable, k, v).self
    /\ ret' = [call |-> "MemTable::put", result |-> MemTable_put(memtable, k, v).ret]
    /\ UNCHANGED <<dir_exists, pc, op, walBuf, sstables, next_sstable_id, walFile, files,
                   faults, restarts, calls, hist>>

MemDelete(k) ==
    /\ memtable' = MemTable_delete(memtable, k).self
    /\ ret' = [call |-> "MemTable::delete", result |-> MemTable_delete(memtable, k).ret]
    /\ UNCHANGED <<dir_exists, pc, op, walBuf, sstables, next_sstable_id, walFile, files,
                   faults, restarts, calls, hist>>

MemClear ==
    /\ memtable' = MemTable_clear(memtable)
    /\ ret' = [call |-> "MemTable::clear"]
    /\ UNCHANGED <<dir_exists, pc, op, walBuf, sstables, next_sstable_id, walFile, files,
                   faults, restarts, calls, hist>>

MemNext ==
    \/ \E k \in MemKeys, v \in MemValues : MemPut(k, v)
    \/ \E k \in MemKeys : MemDelete(k)
    \/ MemClear

MemSpec == Init /\ [][MemNext]_vars

\* -------------------------------------------------------- SSTable alone
\* One SSTable file (id 0) written by write_batch from a batch in ascending
\* unique-key order, then read, reopened, or damaged and reopened.
\* A value that carries the bytes of a footer: magic, meta_len 1, meta_offset 0.
FooterLikeValue == MAGIC_NUMBER \o LE64(1) \o LE64(0)
SstValues == MemValues \cup {FooterLikeValue}
OptValues == {None} \cup {Some(v) : v \in SstValues}
\* A key no batch holds.
AbsentKey == BytesOfLen(MaxKeyLen + 1)

Batches ==
    UNION {LET ks == SortKeys(S)
           IN {[i \in 1..Len(ks) |-> <<ks[i], vs[i]>>] : vs \in [1..Len(ks) -> OptValues]}
           : S \in {T \in SUBSET MemKeys : Cardinality(T) <= MaxBatch}}

\* u64 footer fields to forge a file with, as the 8 bytes on disk.
U64Samples ==
    {LE64(n) : n \in {0, 1, 8, 23, 24, 25, 47, 48, 1024, 1025}}
    \cup {LE64(U64_MAX), <<0, 0, 0, 0, 1, 0, 0, 0>>, <<0, 0, 0, 0, 0, 0, 0, 128>>}

Zeros(n) == [i \in 1..n |-> 0]

\* Files not made by write_batch: too short for a footer, or some bytes
\* followed by a 24-byte footer of chosen fields.
ForgedFiles ==
    {SubSeq(MAGIC_NUMBER \o Zeros(16), 1, n) : n \in {0, 8, 23}}
    \cup {Zeros(n) \o magic \o ml \o mo :
            n \in {0, 1, 24, 48, 1025},
            magic \in {MAGIC_NUMBER, Zeros(8), [MAGIC_NUMBER EXCEPT ![8] = 0]},
            ml \in U64Samples, mo \in U64Samples}

\* The longest file write_batch makes from a batch of Batches.
MaxFileSize ==
    MaxBatch * (4 * U64_BYTES + 2 * MaxKeyLen + Len(FooterLikeValue))
    + META_ENCODED_LEN + FOOTER_SIZE

SstFrame ==
    UNCHANGED <<dir_exists, pc, memtable, walBuf, sstables, next_sstable_id, walFile,
                faults, restarts, calls, hist>>

\* SSTable::create of a path that does not exist yet, then write_batch(B) -> Ok
SstWriteBatch(B) ==
    /\ 0 \notin DOMAIN files
    /\ files' = FileInsert(NoFiles, 0, SSTable_write_batch(B))
    /\ op' = [name |-> "write_batch", batch |-> B]
    /\ ret' = [call |-> "SSTable::write_batch", result |-> Ok]
    /\ SstFrame

\* The file is there, freshly written.  Reading and opening leave the file
\* as it is, so each is applied to the file as write_batch left it.
Written == 0 \in DOMAIN files /\ ret.call = "SSTable::write_batch"

SstGet(k) ==
    /\ Written
    /\ ret' = [key |-> k, call |-> "SSTable::get",
               result |-> SSTable_get_raw(FileBytes(files[0]), k)]
    /\ UNCHANGED <<op, files>>
    /\ SstFrame

SstOpen ==
    /\ Written
    /\ ret' = [call |-> "SSTable::open", result |-> SSTable_open(FileBytes(files[0]))]
    /\ UNCHANGED <<op, files>>
    /\ SstFrame

\* The file cut short by n bytes, then opened.
SstOpenTruncated(n) ==
    /\ Written
    /\ n <= files[0].size
    /\ LET b == FileBytes(files[0])
       IN ret' = [call |-> "open truncated",
                  result |-> SSTable_open(SubSeq(b, 1, Len(b) - n)), arg |-> n]
    /\ UNCHANGED <<op, files>>
    /\ SstFrame

\* Byte i of the footer magic changed to x, then opened.
SstOpenMagicChanged(i, x) ==
    /\ Written
    /\ LET b == FileBytes(files[0])
           at == Len(b) - FOOTER_SIZE + i
       IN /\ b[at] # x
          /\ ret' = [call |-> "open magic changed",
                     result |-> SSTable_open([b EXCEPT ![at] = x]), arg |-> <<i, x>>]
    /\ UNCHANGED <<op, files>>
    /\ SstFrame

\* The last 24 bytes overwritten with zeros, then opened.
SstOpenFooterZeroed ==
    /\ Written
    /\ LET b == FileBytes(files[0])
       IN ret' = [call |-> "open footer zeroed",
                  result |-> SSTable_open(SubSeq(b, 1, Len(b) - FOOTER_SIZE)
                                            \o Zeros(FOOTER_SIZE))]
    /\ UNCHANGED <<op, files>>
    /\ SstFrame

\* SSTable::open on a forged file, in a directory nothing was done in yet.
SstOpenForged(b) ==
    /\ 0 \notin DOMAIN files
    /\ ret.call = "none"
    /\ ret' = [call |-> "open forged", result |-> SSTable_open(b), arg |-> b]
    /\ UNCHANGED <<op, files>>
    /\ SstFrame

SstNext ==
    \/ \E B \in Batches : SstWriteBatch(B)
    \/ \E k \in MemKeys \cup {AbsentKey} : SstGet(k)
    \/ SstOpen
    \/ \E n \in 1..MaxFileSize : SstOpenTruncated(n)
    \/ \E i \in 1..8 : \E x \in {0, 255, (MAGIC_NUMBER[i] + 1) % 256} :
          SstOpenMagicChanged(i, x)
    \/ SstOpenFooterZeroed
    \/ \E b \in ForgedFiles : SstOpenForged(b)

SstSpec == Init /\ [][SstNext]_vars

\* ------------------------------------------- open's directory scan alone
\* PersistentStore::open run on directories that hold any files, the store's
\* own and others, in every order read_dir may return them; no wal.log
\* record is present.  The store returned is ret.result: its SSTable list as
\* the stems of the paths, its next_sstable_id in decimal digits.
MaxDirFiles == 3

\* 2^64 = 18446744073709551616
TWO_POW_64_DEC == <<1, 8, 4, 4, 6, 7, 4, 4, 0, 7, 3, 7, 0, 9, 5, 5, 1, 6, 1, 6>>

Ascii(d) == [i \in 1..Len(d) |-> ASCII_ZERO + d[i]]

\* 000...0.sst, 000...1.sst, 1.sst, <u64::MAX>.sst, <2^64>.sst, x1.sst, +1.sst
ScanStems ==
    {FormatId(<<0>>), FormatId(<<1>>), Ascii(<<1>>), Ascii(U64_MAX_DEC), Ascii(TWO_POW_64_DEC),
     <<ASCII_X, ASCII_ZERO + 1>>, <<ASCII_PLUS, ASCII_ZERO + 1>>}

\* a file write_batch completed, and the file SSTable::create leaves behind
ScanFiles == {SSTable_write_batch(<< <<(<<1>>), Some(<<1>>)>> >>), EmptyFile}

\* the names above with either content, and x.log
ScanEntries ==
    {DirEntry(stem, "sst", f) : stem \in ScanStems, f \in ScanFiles}
        \cup {DirEntry(<<ASCII_X>>, "log", EmptyFile)}

\* Directories: no two files of a directory have the same name.
ScanDirs ==
    {D \in SUBSET ScanEntries :
        /\ Cardinality(D) <= MaxDirFiles
        /\ \A a, b \in D : (a.stem = b.stem /\ a.ext = b.ext) => a = b}

ScanOpen(listing, overflow_checks) ==
    /\ pc = "down"
    /\ ret.call = "none"
    /\ op' = [name |-> "open", listing |-> listing, overflow_checks |-> overflow_checks]
    /\ ret' = [call |-> "PersistentStore::open",
               result |-> PersistentStore_open_sstables(listing, overflow_checks)]
    /\ UNCHANGED <<pc, memtable, walBuf, sstables, next_sstable_id, walFile, files,
                   faults, restarts, calls, hist, dir_exists>>

ScanNext ==
    \E D \in ScanDirs : \E listing \in Enumerations(D), overflow_checks \in BOOLEAN :
        ScanOpen(listing, overflow_checks)

ScanSpec == Init /\ [][ScanNext]_vars

\* --------------------------------------------- PersistentStore::get alone
\* get on stores whose SSTable list holds any files that pass open's
\* verification: the files of batches over Keys, the file of an empty batch
\* among them, on which SSTable::get returns an error.
MaxSSTables == 3

\* the memtables over Keys with one value
GetMemtables ==
    LET OneOp(m) == {MemTable_put(m, k, <<1>>).self : k \in Keys}
                        \cup {MemTable_delete(m, k).self : k \in Keys}
    IN {MemTable_new} \cup OneOp(MemTable_new) \cup UNION {OneOp(m) : m \in OneOp(MemTable_new)}

GetFiles == {SSTable_write_batch(FlushEntries(m)) : m \in GetMemtables}

GetInit ==
    /\ pc = "idle"
    /\ op = NoOp
    /\ memtable \in GetMemtables
    /\ walBuf = <<>>
    /\ \E n \in 0..MaxSSTables :
          /\ files \in [0..(n - 1) -> GetFiles]
          /\ sstables = [i \in 1..n |-> i - 1]
          /\ next_sstable_id = n
    /\ walFile = <<>>
    /\ ret = [call |-> "none"]
    /\ faults = 0
    /\ restarts = 0
    /\ calls = 0
    /\ hist = HistInit
    /\ dir_exists = TRUE

GetNext == \E k \in Keys : Get(k)

GetSpec == GetInit /\ [][GetNext]_vars

\* ------------------------------------------------ the write-ahead log alone
\* WriteAheadLog on one path, byte by byte.  Here walFile is Some(the file's
\* bytes), or None with no file at the path, and walBuf is the BufWriter: the bytes it
\* holds and the File under it, opened for append by new and at position 0 of
\* the truncated file by clear.  hist keeps the ops whose append returned Ok
\* since the last clear, whether a clear returned Ok, and whether since then
\* every append returned Ok, no byte went bad and no process died writing.
WalOps == {WalPut(<<>>, <<>>), WalPut(<<1>>, <<1, 2>>), WalDelete(<<1>>), WalDelete(<<1, 2>>)}

\* the value a damaged byte takes
DamageByte == 2

WalHistInit == [appended |-> <<>>, cleared |-> FALSE, sound |-> TRUE]

WalInit ==
    /\ pc = "down"
    /\ op = NoOp
    /\ memtable = MemTable_new
    /\ walBuf = <<>>
    /\ sstables = <<>>
    /\ next_sstable_id = 0
    /\ walFile = None
    /\ files = NoFiles
    /\ ret = [call |-> "none"]
    /\ faults = 0
    /\ restarts = 0
    /\ calls = 0
    /\ hist = WalHistInit
    /\ dir_exists = TRUE

\* OpenOptions::new().create(true).append(true).open(path)
NewWriter == [pos |-> 0, append |-> TRUE, buf |-> <<>>]

\* WriteAheadLog::new
WalNew ==
    /\ pc = "down"
    /\ pc' = "idle"
    /\ walFile' = IF walFile = None THEN Some(<<>>) ELSE walFile
    /\ walBuf' = NewWriter
    /\ ret' = [call |-> "WriteAheadLog::new", result |-> Ok]
    /\ UNCHANGED <<op, memtable, sstables, next_sstable_id, files, faults, restarts,
                   calls, hist, dir_exists>>

\* append whose flush writes everything the BufWriter holds
WalAppend(o) ==
    /\ pc = "idle"
    /\ calls < MaxCalls
    /\ \E bytes \in {walBuf.buf \o WalRecordBytes(o)} :
          /\ walFile' = Some(WriteThrough(walFile.v, walBuf, bytes))
          /\ walBuf' = WriterAfter(walBuf, Len(bytes), <<>>)
    /\ ret' = [call |-> "WriteAheadLog::append", result |-> Ok]
    /\ hist' = [hist EXCEPT !.appended = Append(@, o)]
    /\ calls' = calls + 1
    /\ UNCHANGED <<pc, op, memtable, sstables, next_sstable_id, files, faults, restarts,
                   dir_exists>>

\* append whose flush fails after n bytes reached the file: the BufWriter
\* keeps the rest
WalAppendErr(o, n) ==
    /\ pc = "idle"
    /\ calls < MaxCalls
    /\ faults < MaxFaults
    /\ \E bytes \in {walBuf.buf \o WalRecordBytes(o)} :
          /\ n < Len(bytes)
          /\ walFile' = Some(WriteThrough(walFile.v, walBuf, SubSeq(bytes, 1, n)))
          /\ walBuf' = WriterAfter(walBuf, n, SubSeq(bytes, n + 1, Len(bytes)))
    /\ ret' = [call |-> "WriteAheadLog::append", result |-> Err("Io")]
    /\ hist' = [hist EXCEPT !.sound = FALSE]
    /\ calls' = calls + 1
    /\ faults' = faults + 1
    /\ UNCHANGED <<pc, op, memtable, sstables, next_sstable_id, files, restarts, dir_exists>>

\* WriteAheadLog::flush that succeeds
WalFlush ==
    /\ pc = "idle"
    /\ calls < MaxCalls
    /\ walFile' = Some(WriteThrough(walFile.v, walBuf, walBuf.buf))
    /\ walBuf' = WriterAfter(walBuf, Len(walBuf.buf), <<>>)
    /\ ret' = [call |-> "WriteAheadLog::flush", result |-> Ok]
    /\ calls' = calls + 1
    /\ UNCHANGED <<pc, op, memtable, sstables, next_sstable_id, files, faults, restarts,
                   hist, dir_exists>>

\* clear: File::create truncates the file, then the assignment drops the
\* writer the log had, which writes what it holds through its own File and
\* ignores a failure of that write.
WalClear ==
    /\ pc = "idle"
    /\ calls < MaxCalls
    /\ \E n \in 0..Len(walBuf.buf) :
          /\ n < Len(walBuf.buf) => faults < MaxFaults
          /\ walFile' = Some(WriteThrough(<<>>, walBuf, SubSeq(walBuf.buf, 1, n)))
          /\ faults' = IF n < Len(walBuf.buf) THEN faults + 1 ELSE faults
    /\ walBuf' = [pos |-> 0, append |-> FALSE, buf |-> <<>>]
    /\ ret' = [call |-> "WriteAheadLog::clear", result |-> Ok]
    /\ hist' = [hist EXCEPT !.appended = <<>>, !.cleared = TRUE, !.sound = TRUE]
    /\ calls' = calls + 1
    /\ UNCHANGED <<pc, op, memtable, sstables, next_sstable_id, files, restarts, dir_exists>>

\* clear whose File::create fails
WalClearErr ==
    /\ pc = "idle"
    /\ calls < MaxCalls
    /\ faults < MaxFaults
    /\ ret' = [call |-> "WriteAheadLog::clear", result |-> Err("Io")]
    /\ calls' = calls + 1
    /\ faults' = faults + 1
    /\ UNCHANGED <<pc, op, memtable, walBuf, sstables, next_sstable_id, walFile, files,
                   restarts, hist, dir_exists>>

\* WriteAheadLog::replay(path, |op| { ops.push(op); Ok(()) })
WalReplay ==
    /\ \E r \in {WriteAheadLog_replay_path(walFile)} :
          ret' = [applied |-> r.applied, call |-> "WriteAheadLog::replay", result |-> r.returns]
    /\ UNCHANGED <<pc, op, memtable, walBuf, sstables, next_sstable_id, walFile, files,
                   faults, restarts, calls, hist, dir_exists>>

\* The process dies in append's flush after n bytes reached the file.
WalCrash(o, n) ==
    /\ pc = "idle"
    /\ calls < MaxCalls
    /\ restarts < MaxRestarts
    /\ \E bytes \in {walBuf.buf \o WalRecordBytes(o)} :
          /\ n <= Len(bytes)
          /\ walFile' = Some(WriteThrough(walFile.v, walBuf, SubSeq(bytes, 1, n)))
          /\ hist' = [hist EXCEPT !.sound = @ /\ n = 0]
    /\ pc' = "down"
    /\ walBuf' = <<>>
    /\ ret' = [call |-> "none"]
    /\ calls' = calls + 1
    /\ restarts' = restarts + 1
    /\ UNCHANGED <<op, memtable, sstables, next_sstable_id, files, faults, dir_exists>>

\* the positions of the payload bytes of the whole records of a file
RECURSIVE PayloadPositions(_, _)
PayloadPositions(b, pos) ==
    IF ~CanRead(b, pos, U64_BYTES) THEN {}
    ELSE LET len == U64FromLE(ReadAt(b, pos, U64_BYTES))
         IN IF ~CanRead(b, pos + U64_BYTES, len) THEN {}
            ELSE ((pos + U64_BYTES + 1)..(pos + U64_BYTES + len))
                    \cup PayloadPositions(b, pos + U64_BYTES + len)

\* A payload byte of a file of whole records goes bad on disk.
WalDamage(i) ==
    /\ hist.sound
    /\ walFile # None
    /\ walBuf \in {<<>>, NewWriter}
    /\ faults < MaxFaults
    /\ i \in PayloadPositions(walFile.v, 0)
    /\ walFile.v[i] # DamageByte
    /\ walFile' = Some([walFile.v EXCEPT ![i] = DamageByte])
    /\ ret' = [call |-> "none"]
    /\ hist' = [hist EXCEPT !.sound = FALSE]
    /\ faults' = faults + 1
    /\ UNCHANGED <<pc, op, memtable, walBuf, sstables, next_sstable_id, files, restarts,
                   calls, dir_exists>>

\* PersistentStore::open in a directory that holds no SSTable: wal.log, where
\* it exists, is replayed into a fresh memtable, and a replay that fails
\* fails open; then WriteAheadLog::new.
WalStoreOpen ==
    /\ pc = "down"
    /\ \E r \in {WriteAheadLog_replay_path(walFile)} :
          LET ok == r.returns = Ok
          IN /\ pc' = IF ok THEN "idle" ELSE "down"
             /\ memtable' = IF ok THEN WriteAheadLog_replay(r.applied, MemTable_new) ELSE memtable
             /\ walFile' = IF ok /\ walFile = None THEN Some(<<>>) ELSE walFile
             /\ walBuf' = IF ok THEN NewWriter ELSE walBuf
             /\ ret' = [call |-> "PersistentStore::open", result |-> r.returns]
    /\ UNCHANGED <<op, sstables, next_sstable_id, files, faults, restarts, calls, hist,
                   dir_exists>>

WalNext ==
    \/ WalNew
    \/ \E o \in WalOps : WalAppend(o)
    \/ \E o \in WalOps : \E n \in 0..(MaxCalls * (U64_BYTES + 3 + MaxKeyLen + MaxValueLen)) :
          WalAppendErr(o, n) \/ WalCrash(o, n)
    \/ WalFlush
    \/ WalClear
    \/ WalClearErr
    \/ WalReplay
    \/ \E i \in 1..(MaxCalls * (U64_BYTES + 3 + MaxKeyLen + MaxValueLen)) : WalDamage(i)
    \/ WalStoreOpen

WalSpec == WalInit /\ [][WalNext]_vars

\* ------------------------------------------------------- the seal alone
\* flush_memtable entered from PersistentStore::flush on a store that open
\* recovered from its WAL: the memtable holds up to MaxSealKeys keys of
\* length 0..MaxKeyLen, each with the empty value, a value or a tombstone,
\* wal.log holds their records, and 0.sst may be there already, left by a
\* seal that failed.
MaxSealKeys == 3

SealKeys ==
    {<<>>} \cup {<<a>> : a \in 1..NumKeys} \cup {<<a, b>> : a, b \in 1..NumKeys}

SealEntries == {Tombstone, ValueOf(<<>>), ValueOf(<<1>>)}

\* what the memtable holds, key by key
SealContents ==
    UNION {[K -> SealEntries] :
             K \in {K \in SUBSET SealKeys : Cardinality(K) \in 1..MaxSealKeys}}

\* the records that leave e in the memtable
SealLog(e) ==
    LET ks == SortKeys(DOMAIN e)
    IN [i \in 1..Len(ks) |->
          IF e[ks[i]] = Tombstone THEN WalDelete(ks[i]) ELSE WalPut(ks[i], e[ks[i]].v)]

SealInit ==
    /\ pc = "seal_create"
    /\ op = FlushOp
    /\ \E e \in SealContents :
          /\ walFile = SealLog(e)
          /\ memtable = WriteAheadLog_replay(SealLog(e), MemTable_new)
    /\ walBuf = <<>>
    /\ sstables = <<>>
    /\ next_sstable_id = 0
    /\ files \in {NoFiles, FileInsert(NoFiles, 0, EmptyFile)}
    /\ ret = [call |-> "flush"]
    /\ faults = 0
    /\ restarts = 0
    /\ calls = 1
    /\ hist = HistCall(HistInit, FlushOp)
    /\ dir_exists = TRUE

SealNext ==
    \/ SealCreateOk
    \/ SealCreateExists
    \/ SealCreateFail
    \/ SealWriteOk
    \/ SealWriteFail
    \/ SealPush
    \/ SealMemClear
    \/ SealWalClearOk
    \/ SealWalClearFail

SealSpec == SealInit /\ [][SealNext]_vars

\* ------------------------------------------------------ open, then open
\* PersistentStore::open on a directory a store left behind: up to
\* MaxReopenTables sealed files 0.sst, 1.sst, ..., each the seal of one put
\* or delete, after them possibly the empty file of a seal that stopped
\* right after SSTable::create, and a wal.log of up to MaxReopenLog records.
\* The store is opened, read, dropped or killed, and opened again.
MaxReopenTables == 2
MaxReopenLog == 2

ReopenRecords ==
    {WalPut(k, v) : k \in Keys, v \in Values} \cup {WalDelete(k) : k \in Keys}

ReopenLogs == UNION {[1..n -> ReopenRecords] : n \in 0..MaxReopenLog}

\* <id>.sst as the seal triggered by one put or delete wrote it
SealedFile(rec) ==
    SSTable_write_batch(FlushEntries(WriteAheadLog_replay(<<rec>>, MemTable_new)))

ReopenDirs ==
    UNION {{[i \in 0..(n - 1) |-> SealedFile(recs[i + 1])] : recs \in [1..n -> ReopenRecords]}
           : n \in 0..MaxReopenTables}

ReopenInit ==
    /\ pc = "down"
    /\ op = NoOp
    /\ memtable = MemTable_new
    /\ walBuf = <<>>
    /\ sstables = <<>>
    /\ next_sstable_id = 0
    /\ walFile \in ReopenLogs
    /\ \E d \in ReopenDirs :
          files \in {d, FileInsert(d, Cardinality(DOMAIN d), EmptyFile)}
    /\ ret = [call |-> "none"]
    /\ faults = 0
    /\ restarts = 0
    /\ calls = 0
    /\ hist = HistInit
    /\ dir_exists = TRUE

ReopenNext ==
    \/ Open
    \/ \E k \in Keys : Get(k)
    \/ Crash
    \/ Drop

ReopenSpec == ReopenInit /\ [][ReopenNext]_vars

\* ------------------------------------------------------------- properties
GetNow(k) == PersistentStore_get(memtable, files, sstables, k)

\* What get must answer for a key whose last acknowledged operation left entry e.
ExpectedAnswer(e) ==
    IF e = None THEN None
    ELSE IF e.v.tag = "Value" THEN Some(e.v.v)
    ELSE None

\* The keys an SSTable file holds, and the newest listed SSTable holding k.
FileKeys(f) == {f.index[i].key : i \in 1..Len(f.index)}
Holders(k) == {i \in 1..Len(sstables) : k \in FileKeys(files[sstables[i]])}
NewestHolder(k) == CHOOSE i \in Holders(k) : \A j \in Holders(k) : j <= i
StoredAsTombstone(f, k) ==
    \E i \in 1..Len(f.data) : f.data[i].key = k /\ f.data[i].value_len = U64_MAX

\* C1: read-your-writes.  Between calls, a key whose put(k, v) returned Ok
\* and was followed only by successful put/delete calls on other keys and
\* by flush calls reads back as Some(v).
C1_ReadYourWrites ==
    pc = "idle" =>
        \A k \in Keys : hist.ryw[k] # None => GetNow(k) = hist.ryw[k]

\* C2: delete shadows put.  Between calls, a key whose delete returned Ok,
\* with no put of that key since, reads as None, whatever flushes, reopens
\* and calls on other keys followed.
C2_DeleteShadowsPut ==
    pc = "idle" => \A k \in hist.deleted : GetNow(k) = None

C2_Witness ==
    /\ pc = "idle"
    /\ restarts > 0
    /\ \E k \in hist.deleted :
          \E i \in 1..Len(sstables) : SSTable_get(files[sstables[i]], k).tag = "Some"

\* C3: read path over SSTables.  For a key absent from the memtable, get
\* answers with the first Some found going from the newest SSTable to the
\* oldest, and with None only when no SSTable of the list answers Some.
C3_ReadPathNewestFirst ==
    pc = "idle" =>
        \A k \in Keys :
            MemTable_get(memtable, k) = None =>
                GetNow(k) = ScanSSTablesSkippingNone(files, sstables, k)

\* C4: tombstones shadow across SSTables.  For a key absent from the
\* memtable, when the newest SSTable holding the key stores a tombstone, get
\* answers None, even if an older SSTable stores a value.
C4_TombstoneShadows ==
    pc = "idle" =>
        \A k \in Keys :
            (/\ MemTable_get(memtable, k) = None
             /\ Holders(k) # {}
             /\ StoredAsTombstone(files[sstables[NewestHolder(k)]], k))
            => GetNow(k) = None

C4_Witness ==
    /\ pc = "idle"
    /\ \E k \in Keys :
          /\ MemTable_get(memtable, k) = None
          /\ Holders(k) # {}
          /\ StoredAsTombstone(files[sstables[NewestHolder(k)]], k)
          /\ \E i \in Holders(k) : SSTable_get(files[sstables[i]], k).tag = "Some"

\* C5: crash durability.  After put/delete calls that all returned Ok, a
\* crash between calls and a reopen, get answers for every key the value of
\* its last acknowledged put, or None after an acknowledged delete.
C5_CrashDurability ==
    (pc = "idle" /\ hist.phase = "recovered_idle" /\ hist.onlyOkWrites) =>
        \A k \in Keys : GetNow(k) = ExpectedAnswer(hist.acked[k])

\* C6: clean reopen.  After the store is dropped, reopening the directory
\* yields a store, and its get answers for every key what the dropped store
\* answered just before the drop.
C6_CleanReopen ==
    /\ hist.phase # "reopen_failed"
    /\ (pc = "idle" /\ hist.phase = "reopened") =>
           \A k \in Keys : GetNow(k) = hist.snap[k]

\* wal.log as replay sees it for the memtable of this state: between the
\* append of a call and its memtable update the last record is still ahead.
WalSettled ==
    IF pc = "mem_update" THEN SubSeq(walFile, 1, Len(walFile) - 1) ELSE walFile

MemtableReplayed ==
    LET replayed == WriteAheadLog_replay(WalSettled, MemTable_new)
    IN \A k \in DOMAIN memtable.map :
          MemTable_get(replayed, k) = Some(memtable.map[k])

\* C7: write-ahead ordering.  Whenever a store exists, every entry of the
\* memtable is the entry that replaying the current wal.log yields for its
\* key; the record of a call that has appended but not yet updated the
\* memtable is the only one ahead.
C7_MemtableInWal == pc # "down" => MemtableReplayed

\* C8: a put or delete whose WAL append fails returns an error and leaves
\* the memtable, the SSTable list and next_sstable_id as they were.
C8_FailedAppendFrame ==
    [][(pc = "idle" /\ pc' = "idle" /\ ret'.call \in {"put", "delete"})
         => /\ ret'.result.tag = "Err"
            /\ memtable' = memtable
            /\ sstables' = sstables
            /\ next_sstable_id' = next_sstable_id]_vars

C8_Witness ==
    /\ pc = "idle"
    /\ ret.call \in {"put", "delete"}
    /\ ret.result = Err("Io")
    /\ walBuf # <<>>
    /\ sstables # <<>>

\* C9: after write_batch failed during a seal, wal.log still yields every
\* entry of the unsealed memtable, and when a later seal is attempted it
\* can go ahead (its SSTable::create can succeed).
C9_SealRetryCanSucceed ==
    hist.wbFailed =>
        /\ pc # "down" => MemtableReplayed
        /\ pc = "seal_create" => ENABLED SealCreateOk

\* C10: idempotent recovery.  After a crash between the end of write_batch
\* and the truncation of wal.log, a reopen and the next seal, get answers
\* for every key what it answered when the process died.
C10_IdempotentRecovery ==
    (pc = "idle" /\ hist.phase = "resealed") =>
        \A k \in Keys : GetNow(k) = hist.snap[k]

\* The section view of a file and its bytes tell the same story: same
\* length, same verdict of open, same answers of get.
SectionViewAgrees ==
    \A id \in DOMAIN files :
        LET f == files[id]
            b == FileBytes(f)
        IN /\ Len(b) = f.size
           /\ SSTable_verify_metadata(f) <=> (SSTable_open(b) = Ok)
           /\ \A k \in Keys \cup MemKeys :
                 LET r == SSTable_get(f, k)
                     q == SSTable_get_raw(b, k)
                 IN IF r.tag = "Err" THEN q.tag = "Err" ELSE q = r

\* The size the specification gives a map: per entry the key's length plus
\* the value's length, or plus 1 for a tombstone.
RECURSIVE SpecifiedSize(_, _)
SpecifiedSize(map, S) ==
    IF S = {} THEN 0
    ELSE LET k == CHOOSE x \in S : TRUE
         IN Len(k) + (IF map[k].tag = "Value" THEN Len(map[k].v) ELSE 1)
            + SpecifiedSize(map, S \ {k})

\* C11: memtable size accounting.  After any sequence of put/delete/clear
\* the counter equals the specified sum over the entries; it is never below
\* what the next put or delete subtracts from it (no underflow); and right
\* after clear the counter is 0 and the table is empty.
C11_SizeAccounting ==
    /\ memtable.size = SpecifiedSize(memtable.map, DOMAIN memtable.map)
    /\ memtable.size >= 0
    /\ \A k \in DOMAIN memtable.map :
          memtable.size >= (IF memtable.map[k].tag = "Value" THEN Len(memtable.map[k].v) ELSE 1)
    /\ ret.call = "MemTable::clear" => (memtable.size = 0 /\ MemTable_is_empty(memtable))

C11_Witness ==
    /\ ret.call = "MemTable::delete"
    /\ ret.result = Some(ValueOf(BytesOfLen(MaxValueLen)))
    /\ \E k \in DOMAIN memtable.map : memtable.map[k].tag = "Value" /\ k # <<>>
    /\ <<>> \in DOMAIN memtable.map

\* What get must answer for entry e of a batch.
BatchAnswers(b, batch) ==
    \A i \in 1..Len(batch) : SSTable_get_raw(b, batch[i][1]) = batch[i][2]

\* C12: SSTable round trip.  After write_batch(B) returned Ok, get of a key
\* of B answers Some(value) when B holds the key with a value and None when
\* B holds it as a tombstone.
C12_RoundTrip ==
    ret.call = "SSTable::get" =>
        \A i \in 1..Len(op.batch) :
            op.batch[i][1] = ret.key => ret.result = op.batch[i][2]

C12_Witness ==
    /\ ret.call = "SSTable::get"
    /\ ret.key = <<>>
    /\ ret.result = Some(<<>>)
    /\ Len(op.batch) = MaxBatch
    /\ \E j \in 1..Len(op.batch) : op.batch[j][2] = None

\* C13: footer integrity.  Every file a successful write_batch(B) made
\* opens, and get on the reopened file answers as B says.
C13_FooterIntegrity ==
    ret.call = "SSTable::open" =>
        /\ ret.result = Ok
        /\ BatchAnswers(FileBytes(files[0]), op.batch)

C13_Witness ==
    /\ ret.call = "SSTable::open"
    /\ ret.result = Ok
    /\ Len(op.batch) = MaxBatch
    /\ \E j \in 1..Len(op.batch) : op.batch[j][2] = Some(FooterLikeValue)

\* C14: corruption detection.  open fails on a written file cut short by
\* any n >= 1 bytes, with any byte of the footer magic changed, or with its
\* last 24 bytes zeroed, whatever bytes the values hold.
C14_CorruptionDetected ==
    ret.call \in {"open truncated", "open magic changed", "open footer zeroed"}
        => ret.result.tag = "Err"

\* The fields of the last 24 bytes of a file of at least 24 bytes.
FooterMagic(b) == SubSeq(b, Len(b) - 23, Len(b) - 16)
FooterMetaLen(b) == U64FromLE(SubSeq(b, Len(b) - 15, Len(b) - 8))
FooterMetaOffset(b) == U64FromLE(SubSeq(b, Len(b) - 7, Len(b)))

\* C15: open returns an error when the file is shorter than 24 bytes, the
\* magic is wrong, meta_len is 0 or above 1024, or meta_offset + meta_len
\* goes past file_size - 24; and the sum never leaves the u64 range.
C15_OpenRejects ==
    ret.call = "open forged" =>
        LET b == ret.arg
        IN /\ ret.result # Err("Overflow")
           /\ (\/ Len(b) < 24
               \/ FooterMagic(b) # MAGIC_NUMBER
               \/ FooterMetaLen(b) = 0
               \/ FooterMetaLen(b) > 1024
               \/ FooterMetaOffset(b) >= U64_BIG
               \/ FooterMetaOffset(b) + FooterMetaLen(b) > Len(b) - 24)
              => ret.result.tag = "Err"

C15_Witness ==
    /\ ret.call = "open forged"
    /\ Len(ret.arg) > 24
    /\ FooterMagic(ret.arg) = MAGIC_NUMBER
    /\ FooterMetaLen(ret.arg) \in 1..1024
    /\ FooterMetaOffset(ret.arg) >= U64_BIG
    /\ ret.result.tag = "Err"

\* C16: open fails when the footer is well formed but the metadata bytes
\* it points at do not decode as the three u64 fields (fewer than 24 bytes).
C16_UndecodableMetadata ==
    (/\ ret.call = "open forged"
     /\ Len(ret.arg) >= 24
     /\ FooterMagic(ret.arg) = MAGIC_NUMBER
     /\ FooterMetaLen(ret.arg) \in 1..1024
     /\ FooterMetaOffset(ret.arg) < U64_BIG
     /\ FooterMetaOffset(ret.arg) + FooterMetaLen(ret.arg) <= Len(ret.arg) - 24
     /\ FooterMetaLen(ret.arg) < META_ENCODED_LEN)
    => ret.result.tag = "Err"

\* C17: get answers None, never an error, for a key the batch does not
\* hold, whatever the batch's length.
C17_AbsentKeyIsNone ==
    (ret.call = "SSTable::get" /\ \A i \in 1..Len(op.batch) : op.batch[i][1] # ret.key)
        => ret.result = None

\* C18: DB::open on a directory that does not exist fails with
\* DatabaseNotFound and leaves the disk as it was (no directory, no file, no
\* store) when create_if_missing is false; when it is true the directory is
\* made and the store returned is empty: get of every key is None and the
\* next SSTable id is 0.
C18_OpenMissingDirectory ==
    [][/\ (DB_open(FALSE) /\ ~dir_exists) =>
            /\ ret' = [call |-> "open", result |-> Err("DatabaseNotFound")]
            /\ ~dir_exists'
            /\ files' = NoFiles /\ walFile' = <<>>
            /\ pc' = "down"
       /\ (DB_open(TRUE) /\ ~dir_exists) =>
            /\ ret' = [call |-> "open", result |-> Ok]
            /\ dir_exists'
            /\ pc' = "idle"
            /\ \A k \in Keys : PersistentStore_get(memtable', files', sstables', k) = None
            /\ next_sstable_id' = 0]_vars

\* A refused open was followed by one that made the directory.
C18_Witness ==
    /\ hist.notFound
    /\ dir_exists
    /\ pc = "idle"
    /\ ret = [call |-> "open", result |-> Ok]
    /\ calls = 0

\* A stem made of decimal digits only.
IsDecimal(stem) == stem # <<>> /\ \A i \in 1..Len(stem) : stem[i] - ASCII_ZERO \in 0..9

\* C19: open returns an error, and no store, whenever some file
\* <decimal-digits>.sst of the directory fails the footer verification,
\* however many other SSTables are valid.
C19_AnyBadSSTableFailsOpen ==
    (/\ ret.call = "PersistentStore::open"
     /\ \E i \in 1..Len(op.listing) :
           /\ op.listing[i].ext = "sst"
           /\ IsDecimal(op.listing[i].stem)
           /\ ~SSTable_verify_metadata(op.listing[i].file))
    => ret.result.tag = "Err"

\* C20: the list of an opened store is in ascending id order whatever order
\* the directory was enumerated in, and next_sstable_id is the largest id
\* plus one, or 0 when the list is empty.
C20_SortedAndNextId ==
    (ret.call = "PersistentStore::open" /\ ret.result.tag = "Ok") =>
        LET list == ret.result.sstables
        IN /\ \A i, j \in 1..Len(list) :
                 i < j => ~DecLess(SortKey(list[j]), SortKey(list[i]))
           /\ ret.result.next_sstable_id =
                 IF list = <<>> THEN <<0>> ELSE DecSucc(SortKey(list[Len(list)]))

\* A file with the .sst extension whose stem does not parse.
Unparsed(e) == e.ext = "sst" /\ ParseU64(e.stem) = None
Parsed(e) == e.ext = "sst" /\ ParseU64(e.stem) # None

\* C21: the .sst files whose stem does not parse are ignored by open: the
\* call returns what it returns on the directory without them (same list,
\* same next_sstable_id, same outcome), none of them is in the list, and
\* an error is the error of a file whose stem parses.
C21_UnparsedStemsIgnored ==
    ret.call = "PersistentStore::open" =>
        LET listing == op.listing
            r == ret.result
        IN /\ r = PersistentStore_open_sstables(SelectSeq(listing, Parsed), op.overflow_checks)
           /\ r.tag = "Ok" =>
                 {r.sstables[i] : i \in 1..Len(r.sstables)}
                     = {listing[i].stem : i \in {j \in 1..Len(listing) : Parsed(listing[j])}}
           /\ r.tag = "Err" =>
                 \E i \in 1..Len(listing) :
                     Parsed(listing[i]) /\ ~SSTable_verify_metadata(listing[i].file)

\* An open that succeeded on a directory holding a garbage x1.sst, a garbage
\* <2^64>.sst and a valid SSTable.
C21_Witness ==
    /\ ret.call = "PersistentStore::open"
    /\ ret.result.tag = "Ok"
    /\ Len(ret.result.sstables) = 1
    /\ Len(op.listing) = MaxDirFiles
    /\ \A i \in 1..Len(op.listing) :
          Unparsed(op.listing[i]) => ~SSTable_verify_metadata(op.listing[i].file)
    /\ \E i, j \in 1..Len(op.listing) :
          /\ Unparsed(op.listing[i]) /\ Unparsed(op.listing[j])
          /\ IsDecimal(op.listing[i].stem) /\ ~IsDecimal(op.listing[j].stem)

\* C22: SSTable::create on a path that exists returns an error and leaves
\* the file as it is; it returns Ok only on a path that did not exist, and
\* the file is there afterwards.
C22_CreateRefusesExisting ==
    [][(pc = "seal_create" /\ pc' # "down") =>
          /\ next_sstable_id \in DOMAIN files =>
                /\ pc' = "idle"
                /\ ret'.result.tag = "Err"
                /\ files' = files
          /\ pc' = "seal_write" =>
                /\ next_sstable_id \notin DOMAIN files
                /\ DOMAIN files' = DOMAIN files \cup {next_sstable_id}
                /\ \A id \in DOMAIN files : files'[id] = files[id]]_vars

\* A call came back with create's error while the file of the id is there.
C22_Witness ==
    /\ pc = "idle"
    /\ ret.call \in {"put", "delete", "flush"}
    /\ ret.result = Err("Custom")
    /\ next_sstable_id \in DOMAIN files
    /\ files[next_sstable_id] # EmptyFile

\* What SSTable::get answers for key k on the i-th SSTable of the list.
Layer(i, k) == SSTable_get(files[sstables[i]], k)

\* C23: when the memtable does not hold the key and the walk over the list,
\* newest first, gets an error from SSTable::get, PersistentStore::get
\* returns that error; an answer that is not an error never comes from
\* behind an SSTable that returned an error.
C23_ErrorShortCircuits ==
    (ret.call = "get" /\ MemTable_get(memtable, ret.key) = None /\ sstables # <<>>) =>
        LET n == Len(sstables)
        IN /\ Layer(n, ret.key).tag = "Err" => ret.result = Layer(n, ret.key)
           /\ ret.result.tag # "Err" =>
                 \A j \in 1..n : Layer(j, ret.key).tag = "Err" =>
                     \E i \in (j + 1)..n : Layer(i, ret.key) = ret.result

\* get returned the error of the newest SSTable while an older one holds
\* the key.
C23_Witness ==
    /\ ret.call = "get"
    /\ ret.result.tag = "Err"
    /\ MemTable_get(memtable, ret.key) = None
    /\ Len(sstables) = MaxSSTables
    /\ Layer(Len(sstables), ret.key).tag = "Err"
    /\ \E j \in 1..(Len(sstables) - 1) : Layer(j, ret.key).tag = "Some"

\* The keys get is asked for: the keys written and one that never is.
AskedKeys == MemKeys \cup {AbsentKey}

\* C24: the MemTable is a map of the latest entry-state.  It starts with
\* nothing for every key; put(k, v) leaves Present(v) under k, delete(k) a
\* tombstone, both leave every other key as it was and return what k held
\* before the call; clear leaves nothing under any key.
C24_LatestEntryState ==
    /\ \A j \in AskedKeys : MemTable_get(memtable, j) = None
    /\ [][/\ \A k \in MemKeys, v \in MemValues :
               MemPut(k, v) =>
                  /\ MemTable_get(memtable', k) = Some(ValueOf(v))
                  /\ ret'.result = MemTable_get(memtable, k)
                  /\ \A j \in AskedKeys \ {k} : MemTable_get(memtable', j) = MemTable_get(memtable, j)
          /\ \A k \in MemKeys :
               MemDelete(k) =>
                  /\ MemTable_get(memtable', k) = Some(Tombstone)
                  /\ ret'.result = MemTable_get(memtable, k)
                  /\ \A j \in AskedKeys \ {k} : MemTable_get(memtable', j) = MemTable_get(memtable, j)
          /\ MemClear => \A j \in AskedKeys : MemTable_get(memtable', j) = None]_vars

\* A put returned the tombstone it replaced while another key holds a value.
C24_Witness ==
    /\ ret.call = "MemTable::put"
    /\ ret.result = Some(Tombstone)
    /\ \E k, j \in MemKeys :
          /\ k # j
          /\ MemTable_get(memtable, k) = Some(Tombstone)
          /\ MemTable_get(memtable, j) = Some(ValueOf(BytesOfLen(0)))

\* the bytes of a file that append(ops[1]) ... append(ops[n]) wrote
WalBytes(ops) == Concat([i \in 1..Len(ops) |-> WalRecordBytes(ops[i])])

\* C25: replaying a file written by append(op_1) ... append(op_n), every one
\* of which returned Ok, hands exactly op_1 ... op_n to apply, in append
\* order with the same keys and values, and returns Ok; replaying a missing
\* file or an empty one returns Ok and hands nothing to apply.
C25_AppendReplayRoundTrip ==
    ret.call = "WriteAheadLog::replay" =>
        /\ (hist.sound /\ ~hist.cleared) =>
              /\ walFile \in {None, Some(WalBytes(hist.appended))}
              /\ ret.result = Ok
              /\ ret.applied = hist.appended
        /\ walFile \in {None, Some(<<>>)} => (ret.result = Ok /\ ret.applied = <<>>)

\* three appends replayed: a put, a delete of its key, a put of the empty key
C25_Witness ==
    /\ ret.call = "WriteAheadLog::replay"
    /\ hist.sound /\ ~hist.cleared
    /\ hist.appended = <<WalPut(<<1>>, <<1, 2>>), WalDelete(<<1>>), WalPut(<<>>, <<>>)>>
    /\ ret.applied = hist.appended
    /\ ret.result = Ok

\* where the whole records of a file end: the position at which a length
\* prefix, or the payload it announces, is not all there
RECURSIVE FrameEnd(_, _)
FrameEnd(b, pos) ==
    IF ~CanRead(b, pos, U64_BYTES) THEN pos
    ELSE LET len == U64FromLE(ReadAt(b, pos, U64_BYTES))
         IN IF ~CanRead(b, pos + U64_BYTES, len) THEN pos
            ELSE FrameEnd(b, pos + U64_BYTES + len)

\* the file ends in a part of a record
TruncatedFinalRecord == walFile # None /\ FrameEnd(walFile.v, 0) < Len(walFile.v)

\* the payload of some whole record of the file does not decode
UndecodablePayload ==
    /\ walFile # None
    /\ \E pos \in 0..Len(walFile.v) :
          /\ pos + 1 \in PayloadPositions(walFile.v, 0)
          /\ pos \notin PayloadPositions(walFile.v, 0)
          /\ DecodeWalOp(ReadAt(walFile.v, pos, U64FromLE(ReadAt(walFile.v, pos - U64_BYTES, U64_BYTES))))
                = None

\* C26: replay returns an error whenever the file ends in a truncated final
\* record (a part of the 8-byte length prefix, or a whole prefix and fewer
\* payload bytes than it announces) or a payload does not decode, and
\* PersistentStore::open on such a wal.log returns an error too.
C26_TornOrUndecodableFails ==
    (/\ ret.call \in {"WriteAheadLog::replay", "PersistentStore::open"}
     /\ TruncatedFinalRecord \/ UndecodablePayload)
        => ret.result.tag = "Err"

\* C27: clear leaves the file empty, and after a clear that returned Ok a
\* replay hands to apply exactly the ops appended since, in order, and none
\* appended before the clear.
C27_ClearTruncates ==
    /\ (ret.call = "WriteAheadLog::clear" /\ ret.result = Ok) => walFile = Some(<<>>)
    /\ (ret.call = "WriteAheadLog::replay" /\ hist.cleared /\ hist.sound) =>
          (ret.result = Ok /\ ret.applied = hist.appended)

\* the newest SSTable of the list is a file whose write_batch returned Ok
SealedFileComplete ==
    /\ sstables # <<>>
    /\ sstables[Len(sstables)] \in DOMAIN files
    /\ SSTable_verify_metadata(files[sstables[Len(sstables)]])

\* C28: the steps of a seal happen in the order create the SSTable file,
\* write_batch returns Ok, the SSTable joins the list and next_sstable_id
\* grows by one, the memtable is cleared, the WAL is truncated; no step of a
\* running store clears the memtable or shortens the WAL unless write_batch
\* of that seal returned Ok.
C28_SealOrdering ==
    [][/\ pc' = "seal_write" =>
            /\ pc = "seal_create"
            /\ next_sstable_id \notin DOMAIN files
            /\ files' = FileInsert(files, next_sstable_id, EmptyFile)
       /\ pc' = "seal_push" =>
            /\ pc = "seal_write"
            /\ files'[next_sstable_id] = SSTable_write_batch(FlushEntries(memtable))
            /\ sstables' = sstables /\ memtable' = memtable /\ walFile' = walFile
       /\ pc' = "seal_memclear" =>
            /\ pc = "seal_push"
            /\ sstables' = Append(sstables, next_sstable_id)
            /\ next_sstable_id' = next_sstable_id + 1
            /\ memtable' = memtable /\ walFile' = walFile
       /\ pc' = "seal_walclear" =>
            /\ pc = "seal_memclear"
            /\ MemTable_is_empty(memtable')
            /\ walFile' = walFile
       /\ (pc # "down" /\ pc' # "down" /\ memtable' # memtable /\ MemTable_is_empty(memtable')) =>
            /\ pc = "seal_memclear"
            /\ files[sstables[Len(sstables)]] = SSTable_write_batch(FlushEntries(memtable))
       /\ Len(walFile') < Len(walFile) =>
            /\ pc = "seal_walclear"
            /\ MemTable_is_empty(memtable)
            /\ SealedFileComplete
            /\ walFile' = <<>>
      ]_vars

\* a seal between its last two steps: the file written and listed, the
\* memtable cleared, the WAL still holding the records
C28_Witness ==
    /\ pc = "seal_walclear"
    /\ SealedFileComplete
    /\ MemTable_is_empty(memtable)
    /\ walFile # <<>>
    /\ next_sstable_id = sstables[Len(sstables)] + 1

\* C29: the batch a seal passes to write_batch holds one entry for each key
\* of the memtable, Some(v) for a key that holds the value v and None for a
\* key that holds a tombstone, and the file write_batch leaves stores
\* exactly those keys, each tombstone as a tombstone.
C29_SealPreservesMemtable ==
    pc = "seal_push" =>
        LET batch == FlushEntries(memtable)
            f == files[next_sstable_id]
        IN /\ Len(batch) = Cardinality(DOMAIN memtable.map)
           /\ \A k \in DOMAIN memtable.map :
                 \E i \in 1..Len(batch) :
                    /\ batch[i][1] = k
                    /\ batch[i][2] = IF memtable.map[k] = Tombstone THEN None
                                     ELSE Some(memtable.map[k].v)
           /\ FileKeys(f) = DOMAIN memtable.map
           /\ \A k \in DOMAIN memtable.map :
                 IF memtable.map[k] = Tombstone
                    THEN StoredAsTombstone(f, k) /\ SSTable_get(f, k) = None
                 ELSE ~StoredAsTombstone(f, k) /\ SSTable_get(f, k) = Some(memtable.map[k].v)

\* a sealed memtable of an empty value, a tombstone and a value
C29_Witness ==
    /\ pc = "seal_push"
    /\ memtable.map = (<<1>> :> ValueOf(<<>>)) @@ (<<1, 2>> :> Tombstone) @@ (<<2>> :> ValueOf(<<1>>))
    /\ StoredAsTombstone(files[next_sstable_id], <<1, 2>>)
    /\ SSTable_get(files[next_sstable_id], <<1>>) = Some(<<>>)

\* lexicographic order of byte strings, a proper prefix first
RECURSIVE LexLess(_, _)
LexLess(a, b) ==
    IF b = <<>> THEN FALSE
    ELSE IF a = <<>> THEN TRUE
    ELSE IF Head(a) # Head(b) THEN Head(a) < Head(b)
    ELSE LexLess(Tail(a), Tail(b))

\* C30: every batch a seal passes to write_batch is in strictly ascending
\* lexicographic key order, so without a duplicate key, tombstones included,
\* and the data section write_batch leaves keeps that order.
C30_BatchAscending ==
    /\ pc \in {"seal_write", "seal_push"} =>
          LET batch == FlushEntries(memtable)
          IN /\ {batch[i][1] : i \in 1..Len(batch)} = DOMAIN memtable.map
             /\ \A i, j \in 1..Len(batch) : i < j => LexLess(batch[i][1], batch[j][1])
    /\ pc = "seal_push" =>
          LET data == files[next_sstable_id].data
          IN \A i, j \in 1..Len(data) : i < j => LexLess(data[i].key, data[j].key)

\* a batch of a key, a longer key it is a prefix of, and a shorter key after
\* both, the middle one a tombstone
C30_Witness ==
    /\ pc = "seal_push"
    /\ FlushEntries(memtable) = << <<(<<1>>), Some(<<1>>)>>, <<(<<1, 2>>), None>>, <<(<<2>>), Some(<<>>)>> >>

\* C31: the ids of the SSTables of a store's list are strictly ascending and
\* all smaller than next_sstable_id, here for the store PersistentStore::open
\* returns.
C31_IdsAscendingBelowNext ==
    (ret.call = "PersistentStore::open" /\ ret.result.tag = "Ok") =>
        LET list == ret.result.sstables
        IN /\ \A i, j \in 1..Len(list) :
                 i < j => DecLess(SortKey(list[i]), SortKey(list[j]))
           /\ \A i \in 1..Len(list) :
                 DecLess(SortKey(list[i]), ret.result.next_sstable_id)

\* C32: no step changes or removes a file that write_batch completed; no
\* step of a running store takes an SSTable off the list or moves it, and a
\* reopen that succeeds lists every such file again.
C32_SSTablesImmutable ==
    [][/\ \A i \in DOMAIN files :
             SSTable_verify_metadata(files[i]) => (i \in DOMAIN files' /\ files'[i] = files[i])
       /\ (pc # "down" /\ pc' # "down") =>
             /\ Len(sstables') >= Len(sstables)
             /\ SubSeq(sstables', 1, Len(sstables)) = sstables
       /\ (pc = "down" /\ pc' = "idle") =>
             \A i \in DOMAIN files :
                SSTable_verify_metadata(files[i]) => \E j \in 1..Len(sstables') : sstables'[j] = i
      ]_vars

\* a store that sealed, was reopened and sealed again: two files on the list
C32_Witness ==
    /\ pc = "idle"
    /\ restarts = 1
    /\ sstables = <<0, 1>>
    /\ \A i \in {0, 1} : SSTable_verify_metadata(files[i])
    /\ ret.call \in {"put", "delete"}
    /\ ret.result = Ok

\* C33: flush() on a store whose memtable is empty creates no SSTable file
\* and leaves the SSTable list, next_sstable_id and the content of wal.log
\* as they were.
C33_EmptyFlushNoOp ==
    [][(Flush /\ MemTable_is_empty(memtable)) =>
          /\ files' = files
          /\ sstables' = sstables
          /\ next_sstable_id' = next_sstable_id
          /\ walFile' = walFile
      ]_vars

\* the files a process that dies inside write_batch can leave: nothing, the
\* data section, or the data and index sections
CrashPoints(B) == {FileBytes(SSTable_partial_write(B, stage)) : stage \in WriteStages}

\* C34: the file a process leaves when it dies after SSTable::create and
\* before write_batch wrote the footer does not pass SSTable::open, so that
\* every later open of its directory fails.
C34_CrashedSealFailsOpen ==
    (/\ ret.call = "open truncated"
     /\ LET b == FileBytes(files[0])
        IN SubSeq(b, 1, Len(b) - ret.arg) \in CrashPoints(op.batch))
        => ret.result.tag = "Err"

\* The encoded size the layout gives the first n entries of a batch:
\* 16 + key_len + value_len for a present value, 16 + key_len for a tombstone.
RECURSIVE EncodedSizes(_, _)
EncodedSizes(B, n) ==
    IF n = 0 THEN 0
    ELSE EncodedSizes(B, n - 1) + 16 + Len(B[n][1])
         + (IF B[n][2] = None THEN 0 ELSE Len(B[n][2].v))

\* C35: SSTable layout offsets.  In the file write_batch made from a batch,
\* the i-th index entry's data_offset is the sum of the encoded sizes of the
\* data entries before it, and the bytes at that offset are that entry's
\* key-length field followed by its key; metadata data_size is the offset
\* where the index block begins, index_size is the index block's length in
\* bytes, and the footer's meta_offset is data_size + index_size.
C35_LayoutOffsets ==
    Written =>
        LET B == op.batch
            f == files[0]
            bytes == FileBytes(f)
            dataLen == Len(FileBytes([EmptyFile EXCEPT !.data = f.data]))
            indexLen == Len(FileBytes([EmptyFile EXCEPT !.index = f.index]))
        IN /\ Len(f.index) = Len(B)
           /\ \A i \in 1..Len(B) :
                 LET off == f.index[i].data_offset
                 IN /\ off = EncodedSizes(B, i - 1)
                    /\ SubSeq(bytes, off + 1, off + U64_BYTES + Len(B[i][1]))
                          = LE64(Len(B[i][1])) \o B[i][1]
           /\ f.meta[1].data_size = dataLen
           /\ SubSeq(bytes, dataLen + 1, dataLen + indexLen)
                 = FileBytes([EmptyFile EXCEPT !.index = f.index])
           /\ f.meta[1].index_size = indexLen
           /\ f.footer[1].meta_offset = f.meta[1].data_size + f.meta[1].index_size
           /\ SubSeq(bytes, f.footer[1].meta_offset + 1, Len(bytes))
                 = FileBytes([EmptyFile EXCEPT !.meta = f.meta, !.footer = f.footer])

\* a two-entry batch, a tombstone ahead of a value, was written
C35_Witness ==
    /\ Written
    /\ Len(op.batch) = 2
    /\ op.batch[1][2] = None
    /\ op.batch[2][2] # None
    /\ Len(op.batch[1][1]) > 0
    /\ files[0].index[2].data_offset = 16 + Len(op.batch[1][1])

\* C36: flush policy effect.  should_flush is evaluated after the memtable
\* update of every put and delete, and it is true whenever the memtable is
\* not empty: when a put or delete has returned Ok, the memtable is empty,
\* wal.log holds no record (and the writer buffers none), and the SSTable
\* list is exactly one element longer than when the call was made.
C36_OkWriteSeals ==
    (pc = "idle" /\ ret.call \in {"put", "delete"} /\ ret.result = Ok) =>
        /\ MemTable_is_empty(memtable)
        /\ walFile = <<>>
        /\ walBuf = <<>>
        /\ Len(sstables) = hist.before.tables + 1

\* a delete returned Ok in a store that already listed one SSTable
C36_Witness ==
    /\ pc = "idle"
    /\ ret.call = "delete"
    /\ ret.result = Ok
    /\ hist.before.tables = 1
    /\ Len(sstables) = 2

\* C37: failed operations have no visible effect.  When a put or delete has
\* returned an error, from the WAL append or from the seal it triggered,
\* get answers for every key what it answered when the call was made.
C37_FailedCallInvisible ==
    (pc = "idle" /\ ret.call \in {"put", "delete"} /\ ret.result.tag = "Err") =>
        Answers(memtable, files, sstables) = hist.before.answers

\* C38: recovery is idempotent and non-destructive.  PersistentStore::open
\* leaves the records of wal.log and every SSTable file as they are, and an
\* open that follows another with no put, delete or flush call in between
\* produces what the earlier one produced: the same outcome, memtable
\* content, SSTable list and next_sstable_id.
C38_OpenIdempotent ==
    [][Open =>
          /\ files' = files
          /\ walFile' = walFile
          /\ hist.lastOpen # None =>
                hist.lastOpen = Some(<<pc' = "idle", memtable', sstables', next_sstable_id'>>)
      ]_vars

\* the second open of a directory with two SSTables and a wal.log of two
\* records has returned
C38_Witness ==
    /\ pc = "idle"
    /\ restarts = 1
    /\ ret.call = "open"
    /\ hist.lastOpen = Some(<<TRUE, memtable, sstables, next_sstable_id>>)
    /\ Len(walFile) = 2
    /\ ~MemTable_is_empty(memtable)
    /\ sstables = <<0, 1>>
    /\ next_sstable_id = 2

\* C39: for every id an existing <id>.sst file name carries, 2^64 - 1
\* included, open computes without arithmetic overflow a next_sstable_id
\* strictly greater than that id, so that the name of the next seal's file
\* is the name of no existing file.
C39_NextIdAboveEveryId ==
    ret.call = "PersistentStore::open" =>
        /\ ret.result.tag # "Panic"
        /\ ret.result.tag = "Ok" =>
              \A i \in 1..Len(op.listing) :
                 LET e == op.listing[i]
                 IN /\ Parsed(e) => DecLess(ParseU64(e.stem).v, ret.result.next_sstable_id)
                    /\ e.ext = "sst" => e.stem # FormatId(ret.result.next_sstable_id)

====
